---- MODULE Spec2Model ----
(***************************************************************************)
(* Model of the time-tracker dashboard (site-template): the duration       *)
(* aggregator of the tracker components, the categorizer, the settings     *)
(* editor with its HTTP endpoint and settings table, the range summarizer  *)
(* (getOverview) with its HTTP endpoint, the activity heatmap, and the     *)
(* notes / blog store with the day reader (getDayData).                    *)
(*                                                                         *)
(* Time is counted in whole seconds since the start of the logical date    *)
(* (the code works in milliseconds and divides by 1000).                   *)
(***************************************************************************)
EXTENDS Integers, Sequences, FiniteSets, TLC

VARIABLES
    \* tracker charts (CategoryPieChart / CategoryStats)
    events,      \* the WindowEvent[] prop handed to the tracker charts
    result,      \* what calculateAppDurations returned for it
    computed,    \* TRUE once the memoised computation has run for `events`
    stats,       \* CategoryStats: its memo for `events`, with the top apps it computed
    usage,       \* what getAppUsageForDate returned for the date holding `events`
    \* categorizer
    catRules,    \* the ordered rule list handed to categorize
    catSubject,  \* the subject of the last categorize call (NoCall before it)
    catResult,   \* what that call returned
    \* Settings page (client)
    mappings,          \* useState<CategoryRule[]>: the edited rule list
    hackingCategories, \* useState<string>: the text field, as its comma-separated segments
    loading,           \* useState(true)
    saving,            \* useState(false)
    message,           \* useState<string | null>
    \* the PUT /api/tracker/settings request of the page, and the settings table
    put,         \* NoRequest, a request being handled, or its response on the way back
    db,          \* settings table: key -> JSON text (Absent when the key has no row)
    \* event store tables (tracker.duckdb)
    window_events,  \* rows in insertion order: [logical_date, app_name]
    key_events,     \* rows in insertion order: [logical_date, key_count]
    notes,          \* set of rows [timestamp, content, logical_date]
    daily_blog,     \* set of rows [logical_date, content]
    \* range summarizer and GET /api/tracker/overview
    ovArgs,      \* arguments of the last getOverview call (NotCalled before it)
    ovDays,      \* the DailySummary[] that call resolved with
    ovQuery,     \* query parameters of the last GET /api/tracker/overview
    ovResponse,  \* the response to it
    \* activity heatmap (HackingStreak)
    days,        \* the DailySummary[] prop
    cells,       \* the memoised { cells, maxKeys } computed from it
    \* note / blog writers and the day reader
    writes,      \* the addNote / saveBlog statements committed so far, in commit order
    read,        \* the getDayData call in progress or finished
    \* Overview page (client)
    page,        \* what the page holds once both of its fetches resolved
    \* tracker endpoints (server)
    api,         \* the request being answered: route, inputs, status, function called
    \* withDB (server)
    withDB,      \* per call: where it stands, what it opened and closed, how it settled
    \* DayView page (client)
    view         \* route date, dayData, blogContent, loading, fetches not yet settled

aggVars == <<events, result, computed, stats, usage>>

catVars == <<catRules, catSubject, catResult>>

settingsVars == <<mappings, hackingCategories, loading, saving, message, put, db>>

tableVars == <<window_events, key_events, notes, daily_blog>>

overviewVars == <<ovArgs, ovDays, ovQuery, ovResponse>>

heatVars == <<days, cells>>

dayVars == <<writes, read>>

trackerVars == <<tableVars, overviewVars, heatVars, dayVars>>

uiVars == <<page, api, withDB, view>>

vars == <<events, result, computed, stats, usage, catRules, catSubject, catResult,
          mappings, hackingCategories, loading, saving, message, put, db,
          window_events, key_events, notes, daily_blog,
          ovArgs, ovDays, ovQuery, ovResponse, days, cells,
          writes, read, page, api, withDB, view>>

----------------------------------------------------------------------------
(* Bounds and domains *)

MaxEvents == 3

LOCKEDSCREEN == "__LOCKEDSCREEN"

\* Application names seen by the tracker: ordinary names, one name that is a
\* canonical array index ("2048"), and the locked-screen sentinel.
\* Names that collide with members of Object.prototype are not in the domain.
AppNames == {"Chrome", "Finder", "2048", LOCKEDSCREEN}

\* Instants (seconds).  Gaps of 600, 1800, 2400, 5000, 6800 and 7400 occur.
Times == {0, 600, 2400, 7400}

GapCap == 1800

----------------------------------------------------------------------------
(* Helpers *)

Min(a, b) == IF a < b THEN a ELSE b

RECURSIVE SumFn(_, _)
SumFn(f, S) ==
    IF S = {} THEN 0
    ELSE LET x == CHOOSE y \in S : TRUE
         IN  f[x] + SumFn(f, S \ {x})

IsSorted(evs) ==
    \A i \in 1..(Len(evs) - 1) : evs[i].timestamp <= evs[i + 1].timestamp

----------------------------------------------------------------------------
(* calculateAppDurations (shared.ts) *)

\* A canonical array index used as a property name: its numeric value, else -1.
IndexValue(app) == IF app = "2048" THEN 2048 ELSE -1

IsIndexKey(app) == IndexValue(app) >= 0

HasKey(d, app) == \E k \in 1..Len(d) : d[k][1] = app

\* durations[app] || 0
GetOrZero(d, app) ==
    IF HasKey(d, app)
    THEN LET k == CHOOSE j \in 1..Len(d) : d[j][1] = app IN d[k][2]
    ELSE 0

\* Where a new own property lands in the object's property order: index keys
\* come first in ascending numeric order, string keys follow in insertion order.
InsertPos(d, app) ==
    IF IsIndexKey(app)
    THEN 1 + Cardinality({k \in 1..Len(d) :
                 IsIndexKey(d[k][1]) /\ IndexValue(d[k][1]) < IndexValue(app)})
    ELSE Len(d) + 1

PutAlwaysAppend(d, app, v) == Append(d, <<app, v>>)

\* durations[app] = v
Put(d, app, v) ==
    IF HasKey(d, app)
    THEN [k \in 1..Len(d) |-> IF d[k][1] = app THEN <<app, v>> ELSE d[k]]
    ELSE LET p == InsertPos(d, app)
         IN  SubSeq(d, 1, p - 1) \o <<<<app, v>>>> \o SubSeq(d, p, Len(d))

DurationSecsReversed(evs, i) ==
    IF i < Len(evs) THEN evs[i].timestamp - evs[i + 1].timestamp ELSE 0

DurationSecsOpenEnd(evs, i) ==
    IF i < Len(evs) THEN evs[i + 1].timestamp - evs[i].timestamp ELSE GapCap

\* next = events[i + 1] ? its time : current;  (next - current) / 1000
DurationSecs(evs, i) ==
    IF i < Len(evs) THEN evs[i + 1].timestamp - evs[i].timestamp ELSE 0

CappedDurationUncapped(durationSecs) == durationSecs

\* Math.min(durationSecs, 30 * 60)
CappedDuration(durationSecs) == Min(durationSecs, GapCap)

\* The accumulation loop, from index i on.
RECURSIVE Accumulate(_, _, _)
Accumulate(evs, i, d) ==
    IF i > Len(evs) THEN d
    ELSE LET app == evs[i].app_name
             v   == GetOrZero(d, app) + CappedDuration(DurationSecs(evs, i))
         IN  Accumulate(evs, i + 1, Put(d, app, v))

FilterLockedKeepAll(entries) == entries

\* .filter(([app]) => app !== "__LOCKEDSCREEN")
FilterLocked(entries) == SelectSeq(entries, LAMBDA e : e[1] # LOCKEDSCREEN)

\* Stable insertion of e into a sequence sorted by descending value.
InsertDesc(s, e) ==
    LET p == 1 + Cardinality({k \in 1..Len(s) : s[k][2] >= e[2]})
    IN  SubSeq(s, 1, p - 1) \o <<e>> \o SubSeq(s, p, Len(s))

RECURSIVE SortDescFrom(_, _, _)
SortDescFrom(entries, i, acc) ==
    IF i > Len(entries) THEN acc
    ELSE SortDescFrom(entries, i + 1, InsertDesc(acc, entries[i]))

\* .sort((a, b) => b[1] - a[1]) : a stable sort, descending by duration
SortDesc(entries) == SortDescFrom(entries, 1, <<>>)

\* A variant that keeps the durations object of the previous call.
calculateAppDurationsKeepingState(evs) ==
    LET kept      == [k \in 1..Len(result) |-> <<result[k].app, result[k].duration>>]
        durations == Accumulate(evs, 1, kept)
        sorted    == SortDesc(FilterLocked(durations))
    IN  [k \in 1..Len(sorted) |->
            [app |-> sorted[k][1], duration |-> sorted[k][2]]]

calculateAppDurations(evs) ==
    LET durations == Accumulate(evs, 1, <<>>)
        sorted    == SortDesc(FilterLocked(durations))
    IN  [k \in 1..Len(sorted) |->
            [app |-> sorted[k][1], duration |-> sorted[k][2]]]

TopAppsCount == 8

\* Array.prototype.slice(start, end) for 0 <= start <= end.
Slice(s, start, end) == SubSeq(s, start + 1, Min(end, Len(s)))

----------------------------------------------------------------------------
(* States of the components a specification leaves alone *)

NoCall == "<none>"

SettingKeys == {"title_mappings", "hacking_categories", "day_boundary_hour"}

NoRequest == [kind |-> "none"]

Absent == <<"<absent>">>

NoMessage == "<null>"

NotComputed == [computed |-> FALSE]

AggIdle ==
    /\ events = <<>>
    /\ result = <<>>
    /\ computed = FALSE
    /\ stats = NotComputed
    /\ usage = NotComputed

CatIdle ==
    /\ catRules = <<>>
    /\ catSubject = NoCall
    /\ catResult = NoCall

SettingsIdle ==
    /\ mappings = <<>>
    /\ hackingCategories = <<"">>
    /\ loading = TRUE
    /\ saving = FALSE
    /\ message = NoMessage
    /\ put = NoRequest
    /\ db = [key \in SettingKeys |->
                IF key = "day_boundary_hour" THEN <<"7">> ELSE Absent]

TablesIdle ==
    /\ window_events = <<>>
    /\ key_events = <<>>
    /\ notes = {}
    /\ daily_blog = {}

NotCalled == [called |-> FALSE]

NoResponse == [status |-> 0]

OverviewIdle ==
    /\ ovArgs = NotCalled
    /\ ovDays = <<>>
    /\ ovQuery = NotCalled
    /\ ovResponse = NoResponse

HeatIdle ==
    /\ days = <<>>
    /\ cells = [rendered |-> FALSE]

DayIdle ==
    /\ writes = <<>>
    /\ read = [pc |-> "none"]

NotLoaded == [loaded |-> FALSE]

NoBody == [kind |-> "none"]

NoApi == [route |-> "none", date |-> <<>>, body |-> NoBody, status |-> 0, called |-> "none"]

MaxCalls == 2

CallIds == 1..MaxCalls

\* A withDB call that has not been made.
NoWithDB ==
    [pc |-> "idle", readOnly |-> FALSE, instOpened |-> 0, connOpened |-> 0,
     instClosed |-> 0, connClosed |-> 0, callback |-> "none", outcome |-> "pending"]

ViewDates == {1, 2, 3}

\* DayView as mounted, before the route supplies a date: useState(null),
\* useState(true), useState(""), no fetch issued.
NoView ==
    [date |-> 0, dayData |-> [logical_date |-> 0], blogContent |-> "",
     loading |-> TRUE, outstanding |-> [d \in ViewDates |-> 0], rejected |-> FALSE]

UiIdle ==
    /\ page = NotLoaded
    /\ api = NoApi
    /\ withDB = [i \in CallIds |-> NoWithDB]
    /\ view = NoView

TrackerIdle ==
    /\ TablesIdle
    /\ OverviewIdle
    /\ HeatIdle
    /\ DayIdle

----------------------------------------------------------------------------
(* The charts' use of it: the events prop changes, the memo recomputes *)

AggInit ==
    /\ events = <<>>
    /\ result = <<>>
    /\ computed = FALSE
    /\ stats = NotComputed
    /\ usage = NotComputed
    /\ CatIdle
    /\ SettingsIdle
    /\ UiIdle
    /\ TrackerIdle

\* A day's events arrive as the events prop (one more event in the array).
SetEvents(app, ts) ==
    /\ Len(events) < MaxEvents
    /\ events' = Append(events, [app_name |-> app, timestamp |-> ts])
    /\ result' = <<>>
    /\ computed' = FALSE
    /\ stats' = NotComputed
    /\ usage' = NotComputed
    /\ UNCHANGED <<catVars, settingsVars, trackerVars, uiVars>>

\* useMemo(() => calculateAppDurations(events), [events])
Calculate ==
    /\ ~computed
    /\ result' = calculateAppDurations(events)
    /\ computed' = TRUE
    /\ UNCHANGED <<events, stats, usage, catVars, settingsVars, trackerVars, uiVars>>

\* CategoryStats, rendered next to the pie chart with the same events prop:
\* useMemo(() => calculateAppDurations(events).slice(0, 8), [events])
CalculateStats ==
    /\ ~stats.computed
    /\ stats' = [computed |-> TRUE,
                 topApps |-> Slice(calculateAppDurations(events), 0, TopAppsCount)]
    /\ UNCHANGED <<events, result, computed, usage, catVars, settingsVars, trackerVars, uiVars>>

AggNext ==
    \/ \E app \in AppNames, ts \in Times : SetEvents(app, ts)
    \/ Calculate
    \/ CalculateStats

SpecAgg == AggInit /\ [][AggNext]_vars

----------------------------------------------------------------------------
(* Properties of calculateAppDurations *)

InputApps(evs) == {evs[i].app_name : i \in 1..Len(evs)}

ResultApps == {result[k].app : k \in 1..Len(result)}

\* The gap after event i, capped at 1800 s; the last event has no gap.
CappedGapAfter(evs, i) ==
    IF i < Len(evs)
    THEN Min(evs[i + 1].timestamp - evs[i].timestamp, 1800)
    ELSE 0

\* Sum of the capped gaps after the events selected by Pick.
GapTotal(evs, Pick(_)) ==
    SumFn([i \in 1..Len(evs) |-> IF Pick(i) THEN CappedGapAfter(evs, i) ELSE 0],
          1..Len(evs))

ExpectedTotal(evs, app) ==
    GapTotal(evs, LAMBDA i : i < Len(evs) /\ evs[i].app_name = app)

ResultSum == SumFn([k \in 1..Len(result) |-> result[k].duration], 1..Len(result))

FirstIndex(evs, app) ==
    CHOOSE i \in 1..Len(evs) :
        /\ evs[i].app_name = app
        /\ \A j \in 1..(i - 1) : evs[j].app_name # app

\* C1: for a chronologically sorted event sequence, every app other than
\* __LOCKEDSCREEN is reported with a total equal to the sum, over its events
\* that are not the last of the sequence, of min(gap to the next event, 1800).
C1_CappedTotals ==
    (computed /\ IsSorted(events)) =>
        \A app \in InputApps(events) \ {LOCKEDSCREEN} :
            /\ \E k \in 1..Len(result) : result[k].app = app
            /\ \A k \in 1..Len(result) :
                   result[k].app = app =>
                       result[k].duration = ExpectedTotal(events, app)

\* C1 witness: one app owns a 2400 s gap and a 5000 s gap, each counted as 1800.
C1_Witness ==
    /\ computed
    /\ IsSorted(events)
    /\ Len(events) = 3
    /\ events[1].app_name = events[2].app_name
    /\ events[1].app_name # LOCKEDSCREEN
    /\ events[3].app_name # events[1].app_name
    /\ events[2].timestamp - events[1].timestamp = 2400
    /\ events[3].timestamp - events[2].timestamp = 5000
    /\ \E k \in 1..Len(result) :
           result[k].app = events[1].app_name /\ result[k].duration = 3600

\* C2: no entry of the result has app equal to __LOCKEDSCREEN, whatever the
\* input, including inputs that contain __LOCKEDSCREEN events.
C2_NoLockedScreen ==
    computed => \A k \in 1..Len(result) : result[k].app # LOCKEDSCREEN

\* C2 witness: the sentinel owns a positive gap in the input and other apps
\* are reported.
C2_Witness ==
    /\ computed
    /\ Len(result) > 0
    /\ \E i \in 1..(Len(events) - 1) :
           /\ events[i].app_name = LOCKEDSCREEN
           /\ events[i + 1].timestamp > events[i].timestamp

\* C3 as stated: the returned durations sum to the sum of all capped gaps
\* between consecutive events of the input.
C3_Original ==
    computed => ResultSum = GapTotal(events, LAMBDA i : TRUE)

\* C3 amended: the returned durations sum to the sum of the capped gaps that
\* follow events whose app is not __LOCKEDSCREEN (the final event adds zero).
C3_SumOfUnlockedGaps ==
    computed =>
        ResultSum = GapTotal(events, LAMBDA i : events[i].app_name # LOCKEDSCREEN)

\* C3 witness: a sentinel gap is left out while other gaps are summed.
C3_Witness ==
    /\ computed
    /\ ResultSum > 0
    /\ ResultSum < GapTotal(events, LAMBDA i : TRUE)

\* C4 as stated: every returned duration is >= 0 for every event sequence.
C4_Original ==
    computed => \A k \in 1..Len(result) : result[k].duration >= 0

\* C4 amended: for every chronologically sorted event sequence, every
\* returned duration is >= 0.
C4_NonNegativeWhenSorted ==
    (computed /\ IsSorted(events)) =>
        \A k \in 1..Len(result) : result[k].duration >= 0

\* C4 witness: a sorted input reported with a positive and a zero duration.
C4_Witness ==
    /\ computed
    /\ IsSorted(events)
    /\ \E k \in 1..Len(result) : result[k].duration > 0
    /\ \E k \in 1..Len(result) : result[k].duration = 0

\* C5 as stated: entries are in non-increasing order of duration, and entries
\* of equal duration are in the order of their app's first occurrence in the
\* input, for every app name.
C5_Original ==
    computed =>
        \A k, l \in 1..Len(result) :
            k < l =>
                /\ result[k].duration >= result[l].duration
                /\ result[k].duration = result[l].duration =>
                       FirstIndex(events, result[k].app)
                           < FirstIndex(events, result[l].app)

\* C6: the last event contributes zero: an empty input gives an empty result,
\* a single event of app X (not the sentinel) gives exactly <<X, 0>>, and an
\* app whose only event is the last one is reported with 0.
C6_LastEventZero ==
    computed =>
        /\ events = <<>> => result = <<>>
        /\ (Len(events) = 1 /\ events[1].app_name # LOCKEDSCREEN) =>
               result = <<[app |-> events[1].app_name, duration |-> 0]>>
        /\ \A k \in 1..Len(result) :
               (\A i \in 1..(Len(events) - 1) : events[i].app_name # result[k].app)
                   => result[k].duration = 0

\* C6 witness: a single-event input of an app that is not the sentinel.
C6_Witness ==
    /\ computed
    /\ Len(events) = 1
    /\ events[1].app_name # LOCKEDSCREEN
    /\ Len(result) = 1

\* C7: the result has exactly one entry per distinct app_name of the input
\* other than __LOCKEDSCREEN, zero-duration apps included, and the events of
\* one app accumulate into its entry.
C7_OneEntryPerApp ==
    computed =>
        /\ ResultApps = InputApps(events) \ {LOCKEDSCREEN}
        /\ Len(result) = Cardinality(ResultApps)
        /\ \A k \in 1..Len(result) :
               result[k].duration = ExpectedTotal(events, result[k].app)

\* C7 witness: two consecutive events of one app with positive gaps, and
\* another app reported with zero.
C7_Witness ==
    /\ computed
    /\ Len(events) = 3
    /\ events[1].app_name = events[2].app_name
    /\ events[2].timestamp > events[1].timestamp
    /\ events[3].timestamp > events[2].timestamp
    /\ Len(result) = 2
    /\ result[2].duration = 0
    /\ result[1].duration =
           (events[2].timestamp - events[1].timestamp)
               + Min(events[3].timestamp - events[2].timestamp, 1800)

----------------------------------------------------------------------------
(* Categorizer: categorize(subject, rules), first match wins *)

MaxRules == 2

UNCATEGORIZED == "uncategorized"

\* Subjects (application name / window title strings).
Subjects == {"Google Chrome - Gmail", "Safari", "Terminal", "Finder"}

\* Well-formed rule patterns, each an alternation of literals.
RulePatterns == {"Chrome|Safari", "Gmail", "Terminal"}

RuleCategories == {"Browser", "Email"}

\* The literals a pattern is an alternation of.
Alternatives(pattern) ==
    CASE pattern = "Chrome|Safari" -> {"Chrome", "Safari"}
      [] pattern = "Gmail"         -> {"Gmail"}
      [] pattern = "Terminal"      -> {"Terminal"}
      [] OTHER                     -> {}

\* The literals that occur in a subject.
Occurring(subject) ==
    CASE subject = "Google Chrome - Gmail" -> {"Google", "Chrome", "Gmail"}
      [] subject = "Safari"                -> {"Safari"}
      [] subject = "Terminal"              -> {"Terminal"}
      [] subject = "Finder"                -> {"Finder"}
      [] OTHER                             -> {}

\* The pattern, evaluated as a regular expression, matches somewhere in subject.
RegexMatches(pattern, subject) == Alternatives(pattern) \cap Occurring(subject) # {}

RECURSIVE categorizeLastMatch(_, _)
categorizeLastMatch(subject, rules) ==
    IF rules = <<>> THEN UNCATEGORIZED
    ELSE IF RegexMatches(rules[Len(rules)].pattern, subject)
         THEN rules[Len(rules)].category
         ELSE categorizeLastMatch(subject, SubSeq(rules, 1, Len(rules) - 1))

\* Iterate the rules in configured order and return on the first match.
RECURSIVE categorize(_, _)
categorize(subject, rules) ==
    IF rules = <<>> THEN UNCATEGORIZED
    ELSE IF RegexMatches(Head(rules).pattern, subject)
         THEN Head(rules).category
         ELSE categorize(subject, Tail(rules))

CatInit ==
    /\ CatIdle
    /\ AggIdle
    /\ SettingsIdle
    /\ UiIdle
    /\ TrackerIdle

\* The rule set is supplied one rule at a time, in configured order.
ConfigureRule(p, c) ==
    /\ Len(catRules) < MaxRules
    /\ catRules' = Append(catRules, [pattern |-> p, category |-> c])
    /\ catSubject' = NoCall
    /\ catResult' = NoCall
    /\ UNCHANGED <<aggVars, settingsVars, trackerVars, uiVars>>

Categorize(subject) ==
    /\ catSubject' = subject
    /\ catResult' = categorize(subject, catRules)
    /\ UNCHANGED <<catRules, aggVars, settingsVars, trackerVars, uiVars>>

CatNext ==
    \/ \E p \in RulePatterns, c \in RuleCategories : ConfigureRule(p, c)
    \/ \E subject \in Subjects : Categorize(subject)

SpecCat == CatInit /\ [][CatNext]_vars

MatchingRules == {i \in 1..Len(catRules) : RegexMatches(catRules[i].pattern, catSubject)}

\* C8: categorize returns the category of the first rule, in configured order,
\* whose regex matches the subject, even when later rules match too, and
\* "uncategorized" when no rule matches or the rule list is empty.
C8_FirstMatchWins ==
    catSubject # NoCall =>
        /\ MatchingRules = {} => catResult = "uncategorized"
        /\ \A i \in MatchingRules :
               (\A j \in MatchingRules : i <= j) => catResult = catRules[i].category

\* C8 witness: "Chrome|Safari" -> Browser is configured before "Gmail" -> Email,
\* both match the subject, and Browser is returned.
C8_Witness ==
    /\ catSubject = "Google Chrome - Gmail"
    /\ catRules = <<[pattern |-> "Chrome|Safari", category |-> "Browser"],
                    [pattern |-> "Gmail", category |-> "Email"]>>
    /\ catResult = "Browser"

----------------------------------------------------------------------------
(* Settings page, PUT/GET /api/tracker/settings, settings table *)

MaxMappings == 2

\* What the user can type into a mapping's pattern and category fields.
\* "(" is not a well-formed regular expression.
PatternInputs == {"", "Chrome|Safari", "("}

CategoryInputs == {"", "Browser"}

EmptyRule == [pattern |-> "", category |-> ""]

\* JSON text of an array: a "[" followed by the items' strings in order.
RECURSIVE FlattenRules(_)
FlattenRules(rules) ==
    IF rules = <<>> THEN <<>>
    ELSE <<Head(rules).pattern, Head(rules).category>> \o FlattenRules(Tail(rules))

JSONStringifyRules(rules) == <<"[">> \o FlattenRules(rules)

JSONParseRules(text) ==
    [k \in 1..((Len(text) - 1) \div 2) |->
        [pattern |-> text[2 * k], category |-> text[2 * k + 1]]]

JSONStringifyList(items) == <<"[">> \o items

JSONParseList(text) == Tail(text)

\* .trim() of a segment of the focus-categories text field
Trim(segment) ==
    CASE segment = " Coding"   -> "Coding"
      [] segment = " Terminal" -> "Terminal"
      [] OTHER                 -> segment

\* the segment that ", " + name leaves after the comma
Spaced(name) ==
    CASE name = "Coding"   -> " Coding"
      [] name = "Terminal" -> " Terminal"
      [] OTHER             -> name

\* list.join(", "), as the comma-separated segments of the resulting string
JoinCategories(list) ==
    IF list = <<>> THEN <<"">>
    ELSE [k \in 1..Len(list) |-> IF k = 1 THEN list[k] ELSE Spaced(list[k])]

\* hackingCategories.split(",").map((s) => s.trim()).filter(Boolean)
HackingCats(segments) ==
    SelectSeq([k \in 1..Len(segments) |-> Trim(segments[k])], LAMBDA x : x # "")

RECURSIVE Reverse(_)
Reverse(q) == IF q = <<>> THEN <<>> ELSE Reverse(Tail(q)) \o <<Head(q)>>

KeepCompleteReversed(ms) ==
    Reverse(SelectSeq(ms, LAMBDA m : m.pattern # "" /\ m.category # ""))

\* mappings.filter((m) => m.pattern && m.category)
KeepComplete(ms) == SelectSeq(ms, LAMBDA m : m.pattern # "" /\ m.category # "")

\* The request body: Object.entries order of the object handleSave builds.
SaveBody(ms, segments) ==
    << <<"title_mappings", JSONStringifyRules(KeepComplete(ms))>>,
       <<"hacking_categories", JSONStringifyList(HackingCats(segments))>> >>

\* An updateSetting that stores an empty array whatever the value.
StoredTextDropsValue(key, text) == <<"[">>

\* c.req.json() then JSON.stringify(value) in updateSetting, per key
StoredText(key, text) ==
    IF key = "title_mappings"
    THEN JSONStringifyRules(JSONParseRules(text))
    ELSE JSONStringifyList(JSONParseList(text))

\* settingsSchema: a record whose keys are at most 100 characters long
SettingsSchemaOk(body) == \A k \in 1..Len(body) : body[k][1] \in SettingKeys

SettingsInit ==
    /\ SettingsIdle
    /\ UiIdle
    /\ AggIdle
    /\ CatIdle
    /\ TrackerIdle

\* The page is opened again (a fresh component instance issues the GET).
OpenPage ==
    /\ ~loading
    /\ put = NoRequest
    /\ mappings' = <<>>
    /\ hackingCategories' = <<"">>
    /\ loading' = TRUE
    /\ saving' = FALSE
    /\ message' = NoMessage
    /\ UNCHANGED <<put, db, aggVars, catVars, trackerVars, uiVars>>

\* GET /api/tracker/settings answered from the table (getSettings), then the
\* page's .then: setMappings(data.title_mappings || []), ...
LoadSettings ==
    /\ loading
    /\ mappings' = IF db["title_mappings"] = Absent THEN <<>>
                   ELSE JSONParseRules(db["title_mappings"])
    /\ hackingCategories' =
           JoinCategories(IF db["hacking_categories"] = Absent THEN <<>>
                          ELSE JSONParseList(db["hacking_categories"]))
    /\ loading' = FALSE
    /\ UNCHANGED <<saving, message, put, db, aggVars, catVars, trackerVars, uiVars>>

\* getSettings throws (500, {error}) or the fetch fails: no rules are shown.
LoadFails ==
    /\ loading
    /\ mappings' = <<>>
    /\ hackingCategories' = <<"">>
    /\ loading' = FALSE
    /\ UNCHANGED <<saving, message, put, db, aggVars, catVars, trackerVars, uiVars>>

handleAddMapping ==
    /\ ~loading
    /\ Len(mappings) < MaxMappings
    /\ mappings' = Append(mappings, EmptyRule)
    /\ UNCHANGED <<hackingCategories, loading, saving, message, put, db, aggVars, catVars, trackerVars, uiVars>>

handleRemoveMapping(index) ==
    /\ ~loading
    /\ index \in 1..Len(mappings)
    /\ mappings' = [k \in 1..(Len(mappings) - 1) |->
                        IF k < index THEN mappings[k] ELSE mappings[k + 1]]
    /\ UNCHANGED <<hackingCategories, loading, saving, message, put, db, aggVars, catVars, trackerVars, uiVars>>

handleMappingChange(index, field, value) ==
    /\ ~loading
    /\ index \in 1..Len(mappings)
    /\ mappings[index][field] # value
    /\ mappings' = [mappings EXCEPT ![index][field] = value]
    /\ UNCHANGED <<hackingCategories, loading, saving, message, put, db, aggVars, catVars, trackerVars, uiVars>>

\* A Save button that stays enabled while a save is in progress.
handleSaveNotDisabled ==
    /\ ~loading
    /\ saving' = TRUE
    /\ message' = NoMessage
    /\ put' = [kind |-> "pending", body |-> SaveBody(mappings, hackingCategories),
               next |-> 1, before |-> db]
    /\ UNCHANGED <<mappings, hackingCategories, loading, db, aggVars, catVars, trackerVars, uiVars>>

\* Save button (disabled while saving): up to the await of the fetch.
\* `before` records the table as the request found it.
handleSave ==
    /\ ~loading
    /\ ~saving
    /\ saving' = TRUE
    /\ message' = NoMessage
    /\ put' = [kind |-> "pending", body |-> SaveBody(mappings, hackingCategories),
               next |-> 1, before |-> db]
    /\ UNCHANGED <<mappings, hackingCategories, loading, db, aggVars, catVars, trackerVars, uiVars>>

\* PUT handler: one updateSetting(key, value) of the loop succeeds; after the
\* last one the handler answers 200.
ServerUpdateSetting ==
    /\ put.kind = "pending"
    /\ SettingsSchemaOk(put.body)
    /\ put.next <= Len(put.body)
    /\ LET key  == put.body[put.next][1]
           text == put.body[put.next][2]
       IN  db' = [db EXCEPT ![key] = StoredText(key, text)]
    /\ put' = IF put.next = Len(put.body)
              THEN [kind |-> "response", status |-> 200]
              ELSE [put EXCEPT !.next = put.next + 1]
    /\ UNCHANGED <<mappings, hackingCategories, loading, saving, message, aggVars, catVars, trackerVars, uiVars>>

\* A handler that restores the table when an update throws.
ServerUpdateFailsRollingBack ==
    /\ put.kind = "pending"
    /\ put.next <= Len(put.body)
    /\ put' = [kind |-> "response", status |-> 500]
    /\ db' = put.before
    /\ UNCHANGED <<mappings, hackingCategories, loading, saving, message, aggVars, catVars, trackerVars, uiVars>>

\* updateSetting throws (database missing or locked): the handler answers 500.
ServerUpdateFails ==
    /\ put.kind = "pending"
    /\ put.next <= Len(put.body)
    /\ put' = [kind |-> "response", status |-> 500]
    /\ UNCHANGED <<mappings, hackingCategories, loading, saving, message, db, aggVars, catVars, trackerVars, uiVars>>

\* The fetch resolves (with any status): the code after the await.
SaveResolved ==
    /\ put.kind = "response"
    /\ message' = "Settings saved successfully!"
    /\ saving' = FALSE
    /\ put' = NoRequest
    /\ UNCHANGED <<mappings, hackingCategories, loading, db, aggVars, catVars, trackerVars, uiVars>>

\* The fetch rejects (the request never reached the server): the catch block.
SaveRejected ==
    /\ put.kind = "pending"
    /\ put.next = 1
    /\ message' = "Failed to save settings"
    /\ saving' = FALSE
    /\ put' = NoRequest
    /\ UNCHANGED <<mappings, hackingCategories, loading, db, aggVars, catVars, trackerVars, uiVars>>

SettingsNext ==
    \/ OpenPage
    \/ LoadSettings
    \/ LoadFails
    \/ handleAddMapping
    \/ \E index \in 1..MaxMappings : handleRemoveMapping(index)
    \/ \E index \in 1..MaxMappings, value \in PatternInputs :
           handleMappingChange(index, "pattern", value)
    \/ \E index \in 1..MaxMappings, value \in CategoryInputs :
           handleMappingChange(index, "category", value)
    \/ handleSave
    \/ ServerUpdateSetting
    \/ ServerUpdateFails
    \/ SaveResolved
    \/ SaveRejected

SpecSettings == SettingsInit /\ [][SettingsNext]_vars

----------------------------------------------------------------------------
(* Properties of the settings round trip *)

\* A pattern that compiles as a regular expression.
WellFormedRegex(pattern) == pattern # "("

\* The rules a stored or transmitted JSON text holds, read off by position.
RuleCount(text) == (Len(text) - 1) \div 2

RuleAt(text, k) == [pattern |-> text[2 * k], category |-> text[2 * k + 1]]

BodyText(request, key) ==
    LET k == CHOOSE j \in 1..Len(request.body) : request.body[j][1] = key
    IN  request.body[k][2]

\* C9 as stated: a rule with a malformed pattern is rejected at save time, so
\* the stored title_mappings never contain a pattern that is not a well-formed
\* regular expression.
C9_Original ==
    db["title_mappings"] # Absent =>
        \A k \in 1..RuleCount(db["title_mappings"]) :
            WellFormedRegex(RuleAt(db["title_mappings"], k).pattern)

\* out is inp without its incomplete rules, in the same order, nothing merged.
IsOrderedSelection(out, inp) ==
    \E f \in [1..Len(out) -> 1..Len(inp)] :
        /\ \A k, l \in 1..Len(out) : k < l => f[k] < f[l]
        /\ \A k \in 1..Len(out) : out[k] = inp[f[k]]
        /\ {f[k] : k \in 1..Len(out)} =
               {i \in 1..Len(inp) : inp[i].pattern # "" /\ inp[i].category # ""}

\* One add, remove or edit: the other rules keep their places relative to
\* each other.
IsSingleEdit(old, new) ==
    \/ /\ Len(new) = Len(old) + 1
       /\ SubSeq(new, 1, Len(old)) = old
    \/ /\ Len(new) = Len(old) - 1
       /\ \E i \in 1..Len(old) :
              /\ \A k \in 1..(i - 1) : new[k] = old[k]
              /\ \A k \in i..Len(new) : new[k] = old[k + 1]
    \/ /\ Len(new) = Len(old)
       /\ \E i \in 1..Len(old) : \A k \in 1..Len(old) : k # i => new[k] = old[k]

\* C10: rule order is preserved exactly as configured.  Each add, remove or
\* edit leaves the other rules in place; Save sends the edited list without
\* its incomplete rules, in order and without merging duplicates; the server
\* stores that text unchanged; a load shows the stored rules in stored order
\* (or none when the load fails).
C10_OrderPreserved ==
    [][ /\ (~loading /\ ~loading' /\ mappings' # mappings) =>
               IsSingleEdit(mappings, mappings')
        /\ (put = NoRequest /\ put' # NoRequest) =>
               LET text == BodyText(put', "title_mappings")
                   sent == [k \in 1..RuleCount(text) |-> RuleAt(text, k)]
               IN  /\ Len(text) = 1 + 2 * RuleCount(text)
                   /\ IsOrderedSelection(sent, mappings)
        /\ (db'["title_mappings"] # db["title_mappings"]) =>
               /\ put.kind = "pending"
               /\ db'["title_mappings"] = BodyText(put, "title_mappings")
        /\ (loading /\ ~loading') =>
               \/ mappings' = <<>>
               \/ /\ db["title_mappings"] # Absent
                  /\ mappings' = [k \in 1..RuleCount(db["title_mappings"]) |->
                                     RuleAt(db["title_mappings"], k)]
      ]_vars

\* C10 witness: a freshly opened page shows two different stored rules, which
\* an earlier page saved, in stored order.
C10_Witness ==
    /\ ~loading
    /\ ~saving
    /\ message = NoMessage
    /\ put = NoRequest
    /\ db["title_mappings"] # Absent
    /\ RuleCount(db["title_mappings"]) = 2
    /\ Len(mappings) = 2
    /\ mappings[1] = RuleAt(db["title_mappings"], 1)
    /\ mappings[2] = RuleAt(db["title_mappings"], 2)
    /\ mappings[1] # mappings[2]

----------------------------------------------------------------------------
(* Event store tables and the range summarizer: getOverview (tracker-db.ts) *)
(*                                                                         *)
(* A logical date is modelled by its day number: the ISO text of a date    *)
(* and the DATE it is cast to order the same way.  A row of window_events  *)
(* keeps the two columns the summarizer reads; the position of a row in    *)
(* the table stands for its timestamp.                                     *)

MaxStoreRows == 3

Dates == 1..3

TrackedApps == {"Chrome", "Finder"}

KeyCounts == {3, 5}

\* A string | undefined argument holding a date: undefined, "", or the text
\* of a date.
Undefined == [kind |-> "undefined", day |-> 0]

EmptyString == [kind |-> "empty", day |-> 0]

Day(d) == [kind |-> "date", day |-> d]

\* The range of limits of the overview endpoint, and its default.
MinLimit == 1

MaxLimit == 365

DefaultLimit == 30

\* JavaScript truthiness of such an argument (if (fromDate), if (toDate)).
Truthy(arg) == arg.kind = "date"

\* The WHERE clause: each condition is added only for a truthy argument.
InRangeExclusive(d, fromDate, toDate) ==
    /\ (Truthy(fromDate) => d > fromDate.day)
    /\ (Truthy(toDate) => d < toDate.day)

InRange(d, fromDate, toDate) ==
    /\ (Truthy(fromDate) => d >= fromDate.day)
    /\ (Truthy(toDate) => d <= toDate.day)

\* FROM window_events w: the indices of the rows the query groups.
FromRowsJoined(we, ke) ==
    {i \in DOMAIN we : \E j \in DOMAIN ke : ke[j].logical_date = we[i].logical_date}

FromRows(we, ke) == DOMAIN we

\* SQL SUM over a set of row indices: NULL (<<>>) over no rows.
SqlSum(ke, S) ==
    IF S = {} THEN <<>> ELSE <<SumFn([j \in S |-> ke[j].key_count], S)>>

Coalesce(v, default) == IF v = <<>> THEN default ELSE v[1]

\* (SELECT SUM(key_count) FROM key_events k WHERE k.logical_date = d),
\* wrapped in COALESCE(..., 0).
TotalKeysJoined(we, ke, d) ==
    Cardinality({i \in DOMAIN we : we[i].logical_date = d})
        * Coalesce(SqlSum(ke, {j \in DOMAIN ke : ke[j].logical_date = d}), 0)

TotalKeys(we, ke, d) ==
    Coalesce(SqlSum(ke, {j \in DOMAIN ke : ke[j].logical_date = d}), 0)

\* COUNT(DISTINCT w.app_name) within the group of date d.
UniqueApps(we, rows, d) ==
    Cardinality({we[i].app_name : i \in {k \in rows : we[k].logical_date = d}})

Max(a, b) == IF a > b THEN a ELSE b

RECURSIVE SetMax(_)
SetMax(S) ==
    LET x == CHOOSE y \in S : TRUE
    IN  IF S = {x} THEN x ELSE Max(x, SetMax(S \ {x}))

RECURSIVE SetMin(_)
SetMin(S) ==
    LET x == CHOOSE y \in S : TRUE
    IN  IF S = {x} THEN x ELSE Min(x, SetMin(S \ {x}))

\* ORDER BY w.logical_date DESC over the groups.
RECURSIVE OrderByDateAsc(_)
OrderByDateAsc(S) ==
    IF S = {} THEN <<>> ELSE <<SetMin(S)>> \o OrderByDateAsc(S \ {SetMin(S)})

RECURSIVE OrderByDateDesc(_)
OrderByDateDesc(S) ==
    IF S = {} THEN <<>> ELSE <<SetMax(S)>> \o OrderByDateDesc(S \ {SetMax(S)})

\* LIMIT n, for n >= 0.
SqlLimit(rows, n) == SubSeq(rows, 1, Min(n, Len(rows)))

getOverview(we, ke, fromDate, toDate, limit) ==
    LET rows    == {i \in FromRows(we, ke) :
                        InRange(we[i].logical_date, fromDate, toDate)}
        groups  == {we[i].logical_date : i \in rows}
        ordered == SqlLimit(OrderByDateDesc(groups), limit)
    IN  [k \in 1..Len(ordered) |->
            [logical_date |-> ordered[k],
             total_keys   |-> TotalKeys(we, ke, ordered[k]),
             unique_apps  |-> UniqueApps(we, rows, ordered[k])]]

\* Arguments the summarizer is called with.
FromArgs == {Undefined, EmptyString, Day(2)}

ToArgs == {Undefined, Day(2)}

LimitArgs == {0, 1, 2, 500}

LastDate(rows) == IF rows = <<>> THEN 1 ELSE rows[Len(rows)].logical_date

OverviewInit ==
    /\ TablesIdle
    /\ OverviewIdle
    /\ HeatIdle
    /\ DayIdle
    /\ AggIdle
    /\ CatIdle
    /\ SettingsIdle
    /\ UiIdle

\* The tracker daemon appends a window event.  Rows arrive in time order, so
\* logical dates never decrease along a table; every multiset of rows is
\* still reachable, and the query does not depend on the order of rows.
RecordWindowEvent(d, app) ==
    /\ Len(window_events) + Len(key_events) < MaxStoreRows
    /\ d >= LastDate(window_events)
    /\ window_events' = Append(window_events, [logical_date |-> d, app_name |-> app])
    /\ ovArgs' = NotCalled
    /\ ovDays' = <<>>
    /\ UNCHANGED <<key_events, notes, daily_blog, ovQuery, ovResponse,
                   heatVars, dayVars, aggVars, catVars, settingsVars,
                   uiVars>>

\* The tracker daemon appends a key event.
RecordKeyEvent(d, n) ==
    /\ Len(window_events) + Len(key_events) < MaxStoreRows
    /\ d >= LastDate(key_events)
    /\ key_events' = Append(key_events, [logical_date |-> d, key_count |-> n])
    /\ ovArgs' = NotCalled
    /\ ovDays' = <<>>
    /\ UNCHANGED <<window_events, notes, daily_blog, ovQuery, ovResponse,
                   heatVars, dayVars, aggVars, catVars, settingsVars,
                   uiVars>>

\* A call of the exported getOverview: one query, whose rows the promise
\* resolves with.  No statement of the function inspects limit before the
\* query is run.
CallGetOverview(fromDate, toDate, limit) ==
    /\ ovArgs' = [called |-> TRUE, fromDate |-> fromDate, toDate |-> toDate,
                  limit |-> limit, resolved |-> TRUE]
    /\ ovDays' = getOverview(window_events, key_events, fromDate, toDate, limit)
    /\ UNCHANGED <<tableVars, ovQuery, ovResponse,
                   heatVars, dayVars, aggVars, catVars, settingsVars,
                   uiVars>>

OverviewNext ==
    \/ \E d \in Dates, app \in TrackedApps : RecordWindowEvent(d, app)
    \/ \E d \in Dates, n \in KeyCounts : RecordKeyEvent(d, n)
    \/ \E f \in FromArgs, t \in ToArgs, l \in LimitArgs : CallGetOverview(f, t, l)

SpecOverview == OverviewInit /\ [][OverviewNext]_vars

----------------------------------------------------------------------------
(* Properties of getOverview *)

ReturnedDates == {ovDays[k].logical_date : k \in DOMAIN ovDays}

WindowDates == {window_events[i].logical_date : i \in DOMAIN window_events}

\* The dates that qualify for the last call: dates with window events that
\* its bounds admit.
QualifyingDates ==
    {d \in WindowDates :
        /\ (ovArgs.fromDate.kind = "date" => ovArgs.fromDate.day <= d)
        /\ (ovArgs.toDate.kind = "date" => d <= ovArgs.toDate.day)}

WithinGivenBounds(d) ==
    /\ (ovArgs.fromDate.kind = "date" => ovArgs.fromDate.day <= d)
    /\ (ovArgs.toDate.kind = "date" => d <= ovArgs.toDate.day)

\* C12: every date returned by getOverview(fromDate, toDate, limit) is >=
\* fromDate when fromDate is given and <= toDate when toDate is given, both
\* bounds inclusive; an omitted bound does not restrict the result: a date
\* with window events inside the given bounds is missing only when the
\* limit is exhausted.
C12_InclusiveBounds ==
    ovArgs.called =>
        /\ \A d \in ReturnedDates : WithinGivenBounds(d)
        /\ \A d \in WindowDates \ ReturnedDates :
              WithinGivenBounds(d) => Len(ovDays) = ovArgs.limit

\* The store has window events on dates 1, 2 and 3; the call with both
\* bounds equal to date 2 returned exactly date 2.
C12_Witness ==
    /\ ovArgs.called
    /\ ovArgs.fromDate = Day(2)
    /\ ovArgs.toDate = Day(2)
    /\ ovArgs.limit = 2
    /\ WindowDates = {1, 2, 3}
    /\ ReturnedDates = {2}

\* A call without a lower bound and with limit 500 returned dates on both
\* sides of date 2.
C12_OpenWitness ==
    /\ ovArgs.called
    /\ ovArgs.fromDate = EmptyString
    /\ ovArgs.toDate = Undefined
    /\ ReturnedDates = {1, 2, 3}

KeyDates == {key_events[j].logical_date : j \in DOMAIN key_events}

\* C13: a logical date that has window events but no key events is in the
\* getOverview result with total_keys = 0; it is missing only when the
\* call's bounds exclude it or the limit is exhausted by newer dates.
C13_KeylessDateKept ==
    ovArgs.called =>
        \A d \in WindowDates \ KeyDates :
            /\ \A k \in DOMAIN ovDays :
                  ovDays[k].logical_date = d => ovDays[k].total_keys = 0
            /\ d \notin ReturnedDates =>
                  \/ ~WithinGivenBounds(d)
                  \/ /\ Len(ovDays) = ovArgs.limit
                     /\ \A r \in ReturnedDates : d < r

\* A date with window events and no key events was returned with 0 keys,
\* next to a date that has keys.
C13_Witness ==
    /\ ovArgs.called
    /\ \E k \in DOMAIN ovDays :
          /\ ovDays[k].logical_date \in WindowDates \ KeyDates
          /\ ovDays[k].total_keys = 0
    /\ \E k \in DOMAIN ovDays : ovDays[k].total_keys > 0

KeyEventsOf(d) == {j \in DOMAIN key_events : key_events[j].logical_date = d}

WindowEventsOf(d) == {i \in DOMAIN window_events : window_events[i].logical_date = d}

\* C14: for every date in the getOverview result, total_keys is the sum of
\* key_count over the key events of that logical date, each counted once
\* however many window events the date has, and unique_apps is the number of
\* distinct app_name values among the date's window events.
C14_TotalsPerDate ==
    ovArgs.called =>
        \A k \in DOMAIN ovDays :
            LET d == ovDays[k].logical_date
            IN  /\ ovDays[k].total_keys =
                      SumFn([j \in KeyEventsOf(d) |-> key_events[j].key_count],
                            KeyEventsOf(d))
                /\ ovDays[k].unique_apps =
                      Cardinality({window_events[i].app_name : i \in WindowEventsOf(d)})

\* A returned date has two window events of different apps and a key event.
C14_Witness ==
    /\ ovArgs.called
    /\ \E k \in DOMAIN ovDays :
          /\ Cardinality(WindowEventsOf(ovDays[k].logical_date)) = 2
          /\ ovDays[k].unique_apps = 2
          /\ ovDays[k].total_keys = 5

\* A returned date has two window events of one app and no key event of its
\* own, while another date has key events.
C14_SameAppWitness ==
    /\ ovArgs.called
    /\ key_events # <<>>
    /\ \E k \in DOMAIN ovDays :
          /\ Cardinality(WindowEventsOf(ovDays[k].logical_date)) = 2
          /\ ovDays[k].unique_apps = 1
          /\ ovDays[k].total_keys = 0

\* C15: a getOverview call with a limit outside [1, 365] fails (with an
\* InvalidArgument error): it does not resolve with a result.
C15_Original ==
    (ovArgs.called /\ ovArgs.limit \notin MinLimit..MaxLimit) => ~ovArgs.resolved

----------------------------------------------------------------------------
(* GET /api/tracker/overview (server.ts) *)
(*                                                                         *)
(* The text of a query parameter is a sequence of characters.              *)

Malformed == [kind |-> "malformed", day |-> 0]

\* c.req.query(name): undefined when the parameter is missing.
MissingParam == [present |-> FALSE, text |-> <<>>]

Param(text) == [present |-> TRUE, text |-> text]

DefaultLimitText == <<"3", "0">>

LimitParams ==
    {MissingParam, Param(<<>>), Param(<<"a", "b", "c">>), Param(<<"0">>),
     Param(<<"-", "5">>), Param(<<"1">>), Param(<<"2">>),
     Param(<<" ", "7">>), Param(<<"1", "2", "a", "b", "c">>),
     Param(<<"3", "6", "5">>), Param(<<"3", "6", "6">>), Param(<<"5", "0", "0">>)}

QueryDates == {Undefined, EmptyString, Day(2), Malformed}

IsDigit(c) == c \in {"0", "1", "2", "3", "4", "5", "6", "7", "8", "9"}

DigitValue(c) ==
    CASE c = "0" -> 0 [] c = "1" -> 1 [] c = "2" -> 2 [] c = "3" -> 3
      [] c = "4" -> 4 [] c = "5" -> 5 [] c = "6" -> 6 [] c = "7" -> 7
      [] c = "8" -> 8 [] c = "9" -> 9

NaN == [nan |-> TRUE, value |-> 0]

Number(n) == [nan |-> FALSE, value |-> n]

\* The digits of text from position i on, read as a decimal number that
\* continues acc; reading stops at the first character that is not a digit.
RECURSIVE ParseDigits(_, _, _)
ParseDigits(text, i, acc) ==
    IF i > Len(text) \/ ~IsDigit(text[i]) THEN acc
    ELSE ParseDigits(text, i + 1, 10 * acc + DigitValue(text[i]))

RECURSIVE SkipWhitespace(_, _)
SkipWhitespace(text, i) ==
    IF i <= Len(text) /\ text[i] = " " THEN SkipWhitespace(text, i + 1) ELSE i

\* parseInt(text, 10): leading whitespace, an optional sign, then digits;
\* NaN when no digit follows.
ParseInt(text) ==
    LET start    == SkipWhitespace(text, 1)
        signed   == start <= Len(text) /\ text[start] \in {"-", "+"}
        first    == IF signed THEN start + 1 ELSE start
        negative == signed /\ text[start] = "-"
    IN  IF first > Len(text) \/ ~IsDigit(text[first]) THEN NaN
        ELSE LET magnitude == ParseDigits(text, first, 0)
             IN  Number(IF negative THEN 0 - magnitude ELSE magnitude)

\* c.req.query("limit") || "30": undefined and "" are falsy.
TextOrDefault(param) ==
    IF param.present /\ param.text # <<>> THEN param.text ELSE DefaultLimitText

\* n || 30: NaN and 0 are falsy.
NumberOrDefaultNaNOnly(n) == IF n.nan THEN DefaultLimit ELSE n.value

NumberOrDefault(n) == IF n.nan \/ n.value = 0 THEN DefaultLimit ELSE n.value

\* Math.min(Math.max(parseInt(c.req.query("limit") || "30", 10) || 30, 1), 365)
ClampLimit(param) ==
    Min(Max(NumberOrDefault(ParseInt(TextOrDefault(param))), MinLimit), MaxLimit)

\* from && !DATE_REGEX.test(from)
InvalidDate(q) == q.kind = "malformed"

SampleWindowEvents ==
    <<[logical_date |-> 1, app_name |-> "Chrome"],
      [logical_date |-> 2, app_name |-> "Chrome"],
      [logical_date |-> 3, app_name |-> "Finder"]>>

RouteInit ==
    /\ window_events = SampleWindowEvents
    /\ key_events = <<>>
    /\ notes = {}
    /\ daily_blog = {}
    /\ OverviewIdle
    /\ HeatIdle
    /\ DayIdle
    /\ AggIdle
    /\ CatIdle
    /\ SettingsIdle
    /\ UiIdle

\* The handler of GET /api/tracker/overview, from the request to its response.
HandleOverview(from, to, limitParam) ==
    /\ ovQuery' = [called |-> TRUE, from |-> from, to |-> to, limit |-> limitParam]
    /\ IF InvalidDate(from) \/ InvalidDate(to)
       THEN /\ ovResponse' = [status |-> 400]
            /\ ovArgs' = NotCalled
            /\ ovDays' = <<>>
       ELSE LET limit == ClampLimit(limitParam)
            IN  /\ ovArgs' = [called |-> TRUE, fromDate |-> from, toDate |-> to,
                              limit |-> limit, resolved |-> TRUE]
                /\ ovDays' = getOverview(window_events, key_events, from, to, limit)
                /\ ovResponse' = [status |-> 200, days |-> ovDays']
    /\ UNCHANGED <<tableVars, heatVars, dayVars, aggVars, catVars, settingsVars, uiVars>>

RouteNext ==
    \E from \in QueryDates, to \in QueryDates, limitParam \in LimitParams :
        HandleOverview(from, to, limitParam)

SpecRoute == RouteInit /\ [][RouteNext]_vars

(* Properties of the overview endpoint *)

\* The number that the text of the last request's limit parameter denotes,
\* for texts that are a decimal integer with an optional sign.
LimitTextValue ==
    LET text == ovQuery.limit.text
    IN  CASE text = <<"0">> -> 0
          [] text = <<"-", "5">> -> 0 - 5
          [] text = <<"1">> -> 1
          [] text = <<"2">> -> 2
          [] text = <<"3", "6", "5">> -> 365
          [] text = <<"3", "6", "6">> -> 366
          [] text = <<"5", "0", "0">> -> 500

LimitIsInteger ==
    /\ ovQuery.limit.present
    /\ ovQuery.limit.text \in
          {<<"0">>, <<"-", "5">>, <<"1">>, <<"2">>, <<"3", "6", "5">>,
           <<"3", "6", "6">>, <<"5", "0", "0">>}

C16_UpperWitness ==
    /\ ovArgs.called
    /\ ovQuery.limit = Param(<<"5", "0", "0">>)
    /\ ovArgs.limit = MaxLimit
    /\ ovResponse.status = 200

----------------------------------------------------------------------------
(* Activity heatmap: HackingStreak (HackingStreak.tsx) *)
(*                                                                         *)
(* An intensity is the quotient total_keys / max of two integers; it is    *)
(* kept as the pair of its numerator and denominator.  The quotient is 0   *)
(* exactly when the numerator is 0, and 1 exactly when both are equal.     *)

MaxDays == 3

HeatDates == 1..MaxDays

HeatKeys == {0, 3, 10}

\* [...days].reverse()
ReverseDays(ds) == [k \in 1..Len(ds) |-> ds[Len(ds) + 1 - k]]

\* Math.max(...sorted.map((d) => d.total_keys), 1)
MaxKeysNoFloor(ds) ==
    IF ds = <<>> THEN 0 ELSE SetMax({ds[k].total_keys : k \in DOMAIN ds})

MaxKeys(ds) == SetMax({ds[k].total_keys : k \in DOMAIN ds} \cup {1})

\* The value of the useMemo callback: { cells, maxKeys }.
HeatCells(ds) ==
    LET sorted == ReverseDays(ds)
        max    == MaxKeys(sorted)
    IN  [rendered |-> TRUE,
         cells    |-> [k \in 1..Len(sorted) |->
                          [date      |-> sorted[k].logical_date,
                           keys      |-> sorted[k].total_keys,
                           intensity |-> [num |-> sorted[k].total_keys,
                                          den |-> max]]],
         maxKeys  |-> max]

HeatInit ==
    /\ HeatIdle
    /\ TablesIdle
    /\ OverviewIdle
    /\ DayIdle
    /\ AggIdle
    /\ CatIdle
    /\ SettingsIdle
    /\ UiIdle

\* The Overview page hands the component the days of an overview response:
\* one summary per date, newest first.
SetDays(S, keys) ==
    /\ days' = LET ordered == OrderByDateDesc(S)
               IN  [k \in 1..Len(ordered) |->
                       [logical_date |-> ordered[k],
                        total_keys   |-> keys[ordered[k]],
                        unique_apps  |-> 1]]
    /\ cells' = [rendered |-> FALSE]
    /\ UNCHANGED <<tableVars, overviewVars, dayVars, aggVars, catVars, settingsVars, uiVars>>

\* The component renders: the memo is computed for the current days.
RenderHeatmap ==
    /\ ~cells.rendered
    /\ cells' = HeatCells(days)
    /\ UNCHANGED <<days, tableVars, overviewVars, dayVars, aggVars, catVars, settingsVars, uiVars>>

HeatNext ==
    \/ \E S \in SUBSET HeatDates, keys \in [HeatDates -> HeatKeys] : SetDays(S, keys)
    \/ RenderHeatmap

SpecHeat == HeatInit /\ [][HeatNext]_vars

(* Properties of the heatmap *)

DisplayedKeys == {days[k].total_keys : k \in DOMAIN days}

\* The day a cell displays: cells are in chronological order.
DayOfCell(k) == days[Len(days) + 1 - k]

\* C17: each day's intensity is total_keys over max(maximum total_keys of
\* the displayed days, 1): the divisor is never zero, every intensity lies
\* in [0, 1], all intensities are 0 when every displayed day has 0 keys, and
\* a day holding the maximum (> 0) has intensity 1.
C17_Intensity ==
    cells.rendered =>
        /\ Len(cells.cells) = Len(days)
        /\ \A k \in DOMAIN cells.cells :
            LET i == cells.cells[k].intensity
            IN  /\ cells.cells[k].date = DayOfCell(k).logical_date
                /\ i.num = DayOfCell(k).total_keys
                /\ i.den >= 1
                /\ \A x \in DisplayedKeys : i.den >= x
                /\ i.den \in DisplayedKeys \cup {1}
                /\ 0 <= i.num /\ i.num <= i.den
                /\ (DisplayedKeys = {0}) => i.num = 0
                /\ (i.num > 0 /\ \A x \in DisplayedKeys : i.num >= x) => i.num = i.den

\* Three days are displayed; one holds the maximum 10 and has intensity 1,
\* one has intensity 3/10 and one has intensity 0.
C17_Witness ==
    /\ cells.rendered
    /\ Len(cells.cells) = 3
    /\ \E k \in DOMAIN cells.cells :
          cells.cells[k].intensity = [num |-> 10, den |-> 10]
    /\ \E k \in DOMAIN cells.cells :
          cells.cells[k].intensity = [num |-> 3, den |-> 10]
    /\ \E k \in DOMAIN cells.cells :
          cells.cells[k].intensity.num = 0

\* Every displayed day has 0 keys and every intensity is 0 over 1.
C17_AllZeroWitness ==
    /\ cells.rendered
    /\ Len(cells.cells) = 2
    /\ \A k \in DOMAIN cells.cells :
          cells.cells[k].intensity = [num |-> 0, den |-> 1]

----------------------------------------------------------------------------
(* Notes and blog writers, and the day reader (tracker-db.ts) *)
(*                                                                         *)
(* Every withDB call opens the database file anew; a statement run on its  *)
(* connection reads or changes the committed content of the tables at the  *)
(* moment it runs.  No function opens a transaction around its statements. *)

MaxWrites == 2

NoteTimes == {1, 2}

NoteContents == {"a", "b"}

BlogContents == {"", "a"}

StoreDates == {1, 2}

\* INSERT INTO notes ... ON CONFLICT (timestamp) DO UPDATE SET content = excluded.content
UpsertNoteInsertOnly(table, timestamp, content, logicalDate) ==
    table \cup {[timestamp |-> timestamp, content |-> content,
                 logical_date |-> logicalDate]}

UpsertNote(table, timestamp, content, logicalDate) ==
    IF \E r \in table : r.timestamp = timestamp
    THEN {IF r.timestamp = timestamp THEN [r EXCEPT !.content = content] ELSE r :
             r \in table}
    ELSE table \cup {[timestamp |-> timestamp, content |-> content,
                      logical_date |-> logicalDate]}

\* INSERT INTO daily_blog ... ON CONFLICT (logical_date) DO UPDATE SET content = excluded.content
UpsertBlogKeepExisting(table, logicalDate, content) ==
    IF \E r \in table : r.logical_date = logicalDate
    THEN table
    ELSE table \cup {[logical_date |-> logicalDate, content |-> content]}

UpsertBlog(table, logicalDate, content) ==
    IF \E r \in table : r.logical_date = logicalDate
    THEN {IF r.logical_date = logicalDate THEN [r EXCEPT !.content = content] ELSE r :
             r \in table}
    ELSE table \cup {[logical_date |-> logicalDate, content |-> content]}

RECURSIVE OrderByTimestamp(_)
OrderByTimestamp(S) ==
    IF S = {} THEN <<>> ELSE <<SetMin(S)>> \o OrderByTimestamp(S \ {SetMin(S)})

\* SELECT timestamp, app_name, ... FROM window_events WHERE logical_date = ? ORDER BY timestamp
SelectWindowEvents(we, d) ==
    LET rows == SelectSeq(we, LAMBDA w : w.logical_date = d)
    IN  [k \in 1..Len(rows) |-> [app_name |-> rows[k].app_name]]

\* SELECT timestamp, key_count FROM key_events WHERE logical_date = ? ORDER BY timestamp
SelectKeyEvents(ke, d) ==
    LET rows == SelectSeq(ke, LAMBDA k : k.logical_date = d)
    IN  [k \in 1..Len(rows) |-> [key_count |-> rows[k].key_count]]

\* SELECT timestamp, content FROM notes WHERE logical_date = ? ORDER BY timestamp
SelectNotes(table, d) ==
    LET rows  == {r \in table : r.logical_date = d}
        times == OrderByTimestamp({r.timestamp : r \in rows})
    IN  [k \in 1..Len(times) |->
            LET r == CHOOSE x \in rows : x.timestamp = times[k]
            IN  [timestamp |-> r.timestamp, content |-> r.content]]

NullBlog == "<null>"

\* SELECT content FROM daily_blog WHERE logical_date = ?, then
\* blogRows.length > 0 && blogRows[0][0] ? String(blogRows[0][0]) : null
SelectBlog(table, d) ==
    LET rows == {r \in table : r.logical_date = d}
    IN  IF rows # {} /\ (CHOOSE r \in rows : TRUE).content # ""
        THEN (CHOOSE r \in rows : TRUE).content
        ELSE NullBlog

SampleKeyEvents == <<[logical_date |-> 1, key_count |-> 5]>>

StoreInit ==
    /\ window_events = SampleWindowEvents
    /\ key_events = SampleKeyEvents
    /\ notes = {}
    /\ daily_blog = {}
    /\ DayIdle
    /\ OverviewIdle
    /\ HeatIdle
    /\ AggIdle
    /\ CatIdle
    /\ SettingsIdle
    /\ UiIdle

\* addNote: one statement, committed when it has run.
addNote(timestamp, content, logicalDate) ==
    /\ Len(writes) < MaxWrites
    /\ notes' = UpsertNote(notes, timestamp, content, logicalDate)
    /\ writes' = Append(writes, [op |-> "addNote", timestamp |-> timestamp,
                                 content |-> content, logical_date |-> logicalDate])
    /\ UNCHANGED <<window_events, key_events, daily_blog, read,
                   overviewVars, heatVars, aggVars, catVars, settingsVars,
                   uiVars>>

\* saveBlog: one statement, committed when it has run.
saveBlog(logicalDate, content) ==
    /\ Len(writes) < MaxWrites
    /\ daily_blog' = UpsertBlog(daily_blog, logicalDate, content)
    /\ writes' = Append(writes, [op |-> "saveBlog", timestamp |-> 0,
                                 content |-> content, logical_date |-> logicalDate])
    /\ UNCHANGED <<window_events, key_events, notes, read,
                   overviewVars, heatVars, aggVars, catVars, settingsVars,
                   uiVars>>

\* getDayData is called: withDB opens the database file in its own
\* read-only instance and calls the callback.  `opened` is the committed
\* content of the tables at that moment.
getDayData(logicalDate) ==
    /\ read.pc \in {"none", "returned"}
    /\ read' = [pc |-> "window", logical_date |-> logicalDate,
                opened |-> [notes |-> notes, daily_blog |-> daily_blog,
                            version |-> Len(writes)]]
    /\ UNCHANGED <<tableVars, writes, overviewVars, heatVars, aggVars, catVars,
                   settingsVars,
                   uiVars>>

\* What a query on notes or daily_blog reads.  The writers open the same
\* file in instances of their own while the reader's instance is open; the
\* code starts no transaction and takes no lock, so a query may be answered
\* from the content the reader's instance opened with or from the content
\* committed by now.
ReadSources ==
    {read.opened,
     [notes |-> notes, daily_blog |-> daily_blog, version |-> Len(writes)]}

\* The four awaited queries of getDayData, in order.  No action of this
\* specification writes window_events or key_events.
QueryWindowEvents ==
    /\ read.pc = "window"
    /\ read' = [pc |-> "keys", logical_date |-> read.logical_date,
                opened |-> read.opened,
                window_events |-> SelectWindowEvents(window_events, read.logical_date)]
    /\ UNCHANGED <<tableVars, writes, overviewVars, heatVars, aggVars, catVars,
                   settingsVars,
                   uiVars>>

QueryKeyEvents ==
    /\ read.pc = "keys"
    /\ read' = [pc |-> "notes", logical_date |-> read.logical_date,
                opened |-> read.opened,
                window_events |-> read.window_events,
                key_events |-> SelectKeyEvents(key_events, read.logical_date)]
    /\ UNCHANGED <<tableVars, writes, overviewVars, heatVars, aggVars, catVars,
                   settingsVars,
                   uiVars>>

QueryNotes ==
    /\ read.pc = "notes"
    /\ \E src \in ReadSources :
          read' = [pc |-> "blog", logical_date |-> read.logical_date,
                   opened |-> read.opened,
                   window_events |-> read.window_events,
                   key_events |-> read.key_events,
                   notes |-> SelectNotes(src.notes, read.logical_date)]
    /\ UNCHANGED <<tableVars, writes, overviewVars, heatVars, aggVars, catVars,
                   settingsVars,
                   uiVars>>

\* The last query; the function returns the DayData it assembled.  `closed`
\* is the number of writes committed by then.
QueryBlog ==
    /\ read.pc = "blog"
    /\ \E src \in ReadSources :
          read' = [pc |-> "returned", logical_date |-> read.logical_date,
                   opened |-> read.opened,
                   closed |-> Len(writes),
                   window_events |-> read.window_events,
                   key_events |-> read.key_events,
                   notes |-> read.notes,
                   blog |-> SelectBlog(src.daily_blog, read.logical_date)]
    /\ UNCHANGED <<tableVars, writes, overviewVars, heatVars, aggVars, catVars,
                   settingsVars,
                   uiVars>>

StoreNext ==
    \/ \E t \in NoteTimes, c \in NoteContents, d \in StoreDates : addNote(t, c, d)
    \/ \E d \in StoreDates, c \in BlogContents : saveBlog(d, c)
    \/ \E d \in StoreDates : getDayData(d)
    \/ QueryWindowEvents
    \/ QueryKeyEvents
    \/ QueryNotes
    \/ QueryBlog

SpecStore == StoreInit /\ [][StoreNext]_vars

(* Properties of the writers *)

\* The committed addNote statements for a timestamp, by position in writes.
NoteWritesAt(ts) ==
    {i \in DOMAIN writes : writes[i].op = "addNote" /\ writes[i].timestamp = ts}

NotesAt(table, ts) == {r \in table : r.timestamp = ts}

\* After the addNote calls made so far: at most one note per timestamp
\* within a logical date, a note for exactly the timestamps written, and
\* each note's content is that of the latest call for its timestamp.
LatestNoteWins ==
    /\ \A ts \in NoteTimes, d \in StoreDates :
          Cardinality({r \in NotesAt(notes, ts) : r.logical_date = d}) <= 1
    /\ \A ts \in NoteTimes :
          IF NoteWritesAt(ts) = {} THEN NotesAt(notes, ts) = {}
          ELSE /\ NotesAt(notes, ts) # {}
               /\ \A r \in NotesAt(notes, ts) :
                     r.content = writes[SetMax(NoteWritesAt(ts))].content

\* A step changes the notes of a timestamp only if it is an addNote call
\* for that timestamp.
OtherNotesUnchanged ==
    \A ts \in NoteTimes :
        NotesAt(notes', ts) # NotesAt(notes, ts) =>
            /\ writes' # writes
            /\ writes'[Len(writes')].op = "addNote"
            /\ writes'[Len(writes')].timestamp = ts

\* C18: after any sequence of addNote calls the store holds at most one note
\* per timestamp within a logical date, whose content is the content of the
\* most recent addNote for that timestamp; a call leaves the notes at other
\* timestamps unchanged.
C18_UpsertByTimestamp == []LatestNoteWins /\ [][OtherNotesUnchanged]_vars

\* Timestamp 1 was written twice, "a" then "b": one note, with content "b".
C18_Witness ==
    /\ Len(writes) = 2
    /\ writes[1].op = "addNote" /\ writes[1].timestamp = 1 /\ writes[1].content = "a"
    /\ writes[2].op = "addNote" /\ writes[2].timestamp = 1 /\ writes[2].content = "b"
    /\ writes[1].logical_date = writes[2].logical_date
    /\ Cardinality(notes) = 1
    /\ \A r \in notes : r.content = "b"

\* Timestamps 1 and 2 were written on one date: two notes, each as written.
C18_OtherTimestampWitness ==
    /\ Len(writes) = 2
    /\ writes[1].op = "addNote" /\ writes[1].timestamp = 1
    /\ writes[2].op = "addNote" /\ writes[2].timestamp = 2
    /\ writes[1].logical_date = writes[2].logical_date
    /\ Cardinality(notes) = 2

\* The committed saveBlog statements for a date, by position in writes.
BlogWritesAt(d) ==
    {i \in DOMAIN writes : writes[i].op = "saveBlog" /\ writes[i].logical_date = d}

BlogsAt(table, d) == {r \in table : r.logical_date = d}

\* After the saveBlog calls made so far: at most one record per date, a
\* record for exactly the dates saved, holding the content of the latest
\* call for its date.
LatestBlogWins ==
    \A d \in StoreDates :
        IF BlogWritesAt(d) = {} THEN BlogsAt(daily_blog, d) = {}
        ELSE BlogsAt(daily_blog, d) =
                {[logical_date |-> d,
                  content |-> writes[SetMax(BlogWritesAt(d))].content]}

\* A step changes the blog of a date only if it is a saveBlog call for that
\* date.
OtherBlogsUnchanged ==
    \A d \in StoreDates :
        BlogsAt(daily_blog', d) # BlogsAt(daily_blog, d) =>
            /\ writes' # writes
            /\ writes'[Len(writes')].op = "saveBlog"
            /\ writes'[Len(writes')].logical_date = d

\* A saveBlog call that repeats the call committed just before it leaves the
\* tables as they are.
SecondSaveChangesNothing ==
    (/\ writes # <<>>
     /\ writes[Len(writes)].op = "saveBlog"
     /\ writes' = Append(writes, writes[Len(writes)]))
        => UNCHANGED tableVars

\* C19: after any sequence of saveBlog calls the store holds at most one
\* daily_blog record per logical date, whose content is that of the most
\* recent saveBlog for that date; blogs of other dates are unchanged by a
\* call, and saving the same content twice leaves the same state as saving
\* it once.
C19_UpsertByDate ==
    /\ []LatestBlogWins
    /\ [][OtherBlogsUnchanged /\ SecondSaveChangesNothing]_vars

\* Date 1 was saved twice, first with "" and then with "a": one record,
\* holding "a".
C19_Witness ==
    /\ Len(writes) = 2
    /\ writes[1] = [op |-> "saveBlog", timestamp |-> 0, content |-> "", logical_date |-> 1]
    /\ writes[2] = [op |-> "saveBlog", timestamp |-> 0, content |-> "a", logical_date |-> 1]
    /\ daily_blog = {[logical_date |-> 1, content |-> "a"]}

\* The same content was saved twice for date 1: one record.
C19_TwiceWitness ==
    /\ Len(writes) = 2
    /\ writes[1] = writes[2]
    /\ writes[1].op = "saveBlog"
    /\ daily_blog = {[logical_date |-> writes[1].logical_date, content |-> writes[1].content]}

(* Properties of the day reader *)

\* The notes of date d after the first v committed writes: one per
\* timestamp first written under d, with the content written last.
NotesAfter(v, d) ==
    LET written(ts) == {i \in NoteWritesAt(ts) : i <= v}
        times == {ts \in NoteTimes :
                     /\ written(ts) # {}
                     /\ writes[SetMin(written(ts))].logical_date = d}
    IN  {[timestamp |-> ts, content |-> writes[SetMax(written(ts))].content] :
            ts \in times}

\* The blog of date d after the first v committed writes, as getDayData
\* reports it: null when there is none or it is empty.
BlogAfter(v, d) ==
    LET written == {i \in BlogWritesAt(d) : i <= v}
    IN  IF written = {} \/ writes[SetMax(written)].content = ""
        THEN NullBlog
        ELSE writes[SetMax(written)].content

\* The returned DayData is the content of one state of the store, the one
\* after v committed writes.
ReadMatchesState(v) ==
    /\ {read.notes[k] : k \in DOMAIN read.notes} = NotesAfter(v, read.logical_date)
    /\ Len(read.notes) = Cardinality(NotesAfter(v, read.logical_date))
    /\ read.blog = BlogAfter(v, read.logical_date)
    /\ read.window_events = SelectWindowEvents(window_events, read.logical_date)
    /\ read.key_events = SelectKeyEvents(key_events, read.logical_date)

\* C20: a getDayData(d) call that runs concurrently with addNote / saveBlog
\* writes returns window events, key events, notes and blog that all belong
\* to one single state of the store, one of the states the store was in
\* between the opening of the database and the last query.
C20_Original ==
    read.pc = "returned" =>
        \E v \in read.opened.version..read.closed : ReadMatchesState(v)

----------------------------------------------------------------------------
(* Properties of repeated calculateAppDurations calls *)

\* Both components have called calculateAppDurations for the same events:
\* the calls, in whichever order they ran, returned the same entries.
SameResultForSameEvents ==
    (computed /\ stats.computed) =>
        /\ Len(stats.topApps) = Min(Len(result), TopAppsCount)
        /\ \A k \in DOMAIN stats.topApps : stats.topApps[k] = result[k]

\* A step in which a component calls calculateAppDurations leaves the events
\* array and its elements as they were.
CallLeavesEventsUnchanged ==
    ((computed' /\ ~computed) \/ (stats'.computed /\ ~stats.computed))
        => events' = events

----------------------------------------------------------------------------
(* getAppUsageForDate (tracker-db.ts): the per-app durations computed in SQL *)
(*                                                                         *)
(* `events` are the window_events rows of the requested logical date.      *)

\* The orders in which ORDER BY lists the rows S by ascending key: rows with
\* equal keys may come in any order.
RECURSIVE OrderingsBy(_, _)
OrderingsBy(key, S) ==
    IF S = {} THEN {<<>>}
    ELSE UNION {{<<x>> \o rest : rest \in OrderingsBy(key, S \ {x})} :
                   x \in {y \in S : \A z \in S : key[y] <= key[z]}}

\* The CTE event_durations for one such order of the rows:
\* LEAD(timestamp) OVER (ORDER BY timestamp) is NULL (<<>>) on the last row.
EventDurations(evs, p) ==
    [i \in 1..Len(evs) |->
        [app_name       |-> evs[p[i]].app_name,
         timestamp      |-> evs[p[i]].timestamp,
         next_timestamp |-> IF i < Len(evs) THEN <<evs[p[i + 1]].timestamp>>
                            ELSE <<>>]]

\* CASE WHEN next_timestamp IS NOT NULL
\*      THEN EXTRACT(EPOCH FROM (next_timestamp - timestamp)) ELSE 0 END
RowDuration(row) ==
    IF row.next_timestamp # <<>> THEN row.next_timestamp[1] - row.timestamp ELSE 0

\* SELECT app_name, SUM(...), COUNT(*) FROM event_durations GROUP BY app_name
UsageGroups(rows) ==
    {[app_name         |-> app,
      duration_seconds |-> SumFn([i \in DOMAIN rows |-> RowDuration(rows[i])],
                                 {i \in DOMAIN rows : rows[i].app_name = app}),
      event_count      |-> Cardinality({i \in DOMAIN rows : rows[i].app_name = app})] :
        app \in {rows[i].app_name : i \in DOMAIN rows}}

\* The results the query can produce: the groups ORDER BY duration_seconds
\* DESC, for every order the window function may see the rows in.
getAppUsageForDate(evs) ==
    UNION {LET groups == UsageGroups(EventDurations(evs, p))
           IN  OrderingsBy([g \in groups |-> 0 - g.duration_seconds], groups) :
           p \in OrderingsBy([i \in 1..Len(evs) |-> evs[i].timestamp], 1..Len(evs))}

\* GET /api/tracker/day/:logicalDate/apps for the date holding `events`.
GetAppUsage ==
    /\ ~usage.computed
    /\ \E apps \in getAppUsageForDate(events) :
          usage' = [computed |-> TRUE, apps |-> apps]
    /\ UNCHANGED <<events, result, computed, stats, catVars, settingsVars, trackerVars, uiVars>>

UsageNext ==
    \/ \E app \in AppNames, ts \in Times : SetEvents(app, ts)
    \/ Calculate
    \/ GetAppUsage

SpecUsage == AggInit /\ [][UsageNext]_vars

(* Properties of getAppUsageForDate *)

StrictlyIncreasing(evs) ==
    \A i \in 1..(Len(evs) - 1) : evs[i].timestamp < evs[i + 1].timestamp

\* C22: for the events of a logical date, in chronological order, the
\* per-app durations returned by getAppUsageForDate equal the ones
\* calculateAppDurations computes from the same events (an app whose
\* duration is zero counts as absent on either side).
C22_Original ==
    (computed /\ usage.computed /\ StrictlyIncreasing(events)) =>
        {<<usage.apps[k].app_name, usage.apps[k].duration_seconds>> :
            k \in {j \in DOMAIN usage.apps : usage.apps[j].duration_seconds > 0}}
          = {<<result[k].app, result[k].duration>> :
                k \in {j \in DOMAIN result : result[j].duration > 0}}

----------------------------------------------------------------------------
(* getAvailableDates (tracker-db.ts) and the Overview page's Recent Days *)

RecentDaysCount == 30

OverviewPageLimit == Param(<<"3", "0">>)

\* SELECT DISTINCT logical_date FROM (window_events UNION key_events)
\* ORDER BY logical_date DESC, each row mapped to a DateInfo.
getAvailableDates(we, ke) ==
    LET listed  == {we[i].logical_date : i \in DOMAIN we}
                       \cup {ke[i].logical_date : i \in DOMAIN ke}
        ordered == OrderByDateDesc(listed)
    IN  [k \in 1..Len(ordered) |-> [logical_date |-> ordered[k]]]

\* The page's effect: GET /api/tracker/dates and
\* GET /api/tracker/overview?limit=30, stored when both have resolved.
\* Both reads see the same tables here: no event is recorded between them.
LoadOverviewPage ==
    /\ ~page.loaded
    /\ page' = [loaded   |-> TRUE,
                dates    |-> getAvailableDates(window_events, key_events),
                overview |-> getOverview(window_events, key_events,
                                         Undefined, Undefined,
                                         ClampLimit(OverviewPageLimit))]
    /\ UNCHANGED <<tableVars, overviewVars, heatVars, dayVars, api, withDB, view,
                   aggVars, catVars, settingsVars>>

\* The page unmounts; a later mount fetches again.
LeaveOverviewPage ==
    /\ page.loaded
    /\ page' = NotLoaded
    /\ UNCHANGED <<tableVars, overviewVars, heatVars, dayVars, api, withDB, view,
                   aggVars, catVars, settingsVars>>

\* overview.find((d) => d.logical_date === dateInfo.logical_date)
FindSummary(overview, d) ==
    LET hits == {k \in DOMAIN overview : overview[k].logical_date = d}
    IN  IF hits = {} THEN <<>> ELSE <<overview[SetMin(hits)]>>

\* dates.slice(0, 30).map(...): the number shown before "keys",
\* summary?.total_keys?.toLocaleString() || 0
RecentDays(p) ==
    LET shown == Slice(p.dates, 0, RecentDaysCount)
    IN  [k \in DOMAIN shown |->
            LET summary == FindSummary(p.overview, shown[k].logical_date)
            IN  [logical_date |-> shown[k].logical_date,
                 keys         |-> IF summary = <<>> THEN 0 ELSE summary[1].total_keys]]

PageInit == OverviewInit

PageNext ==
    \/ \E d \in Dates, app \in TrackedApps : RecordWindowEvent(d, app)
    \/ \E d \in Dates, n \in KeyCounts : RecordKeyEvent(d, n)
    \/ LoadOverviewPage
    \/ LeaveOverviewPage

SpecPage == PageInit /\ [][PageNext]_vars

(* Properties of the Recent Days list *)

\* The sum of the key counts recorded for date d.
KeySum(ke, d) ==
    SumFn([i \in DOMAIN ke |-> ke[i].key_count],
          {i \in DOMAIN ke : ke[i].logical_date = d})

\* C23: every date listed by getAvailableDates within the overview's limit
\* is summarized by getOverview, so the Recent Days entry of a date shows the
\* sum of that date's key counts at the time the page loaded.
C23_Original ==
    [][(page'.loaded /\ ~page.loaded) =>
          \A k \in DOMAIN RecentDays(page') :
              /\ FindSummary(page'.overview, RecentDays(page')[k].logical_date) # <<>>
              /\ RecentDays(page')[k].keys
                    = KeySum(key_events', RecentDays(page')[k].logical_date)]_vars

----------------------------------------------------------------------------
(* Request validation of the tracker endpoints (server.ts) *)

\* Request texts.  A date parameter is its sequence of characters; a note
\* or blog content is a string of `length` characters, or not a string.
Text(n) == [kind |-> "string", length |-> n]

MissingField == [kind |-> "undefined", length |-> 0]

NoteContentMax == 10000

BlogContentMax == 100000

ValidDateText == <<"2", "0", "2", "5", "-", "0", "1", "-", "0", "2">>

DateTexts ==
    {ValidDateText,
     <<>>,
     <<"2", "0", "2", "5", "-", "1", "-", "2">>,
     <<"2", "0", "2", "5", "/", "0", "1", "/", "0", "2">>,
     <<"2", "0", "2", "5", "-", "0", "1", "-", "0", "2", "x">>}

NoteStamps == {<<>>, <<"1">>, <<"2">>}

NoteTexts == {MissingField, Text(0), Text(1), Text(NoteContentMax), Text(NoteContentMax + 1)}

BlogTexts == {MissingField, Text(0), Text(1), Text(BlogContentMax), Text(BlogContentMax + 1)}

NoteBodies == [timestamp : NoteStamps, content : NoteTexts, logical_date : DateTexts]

BlogBodies == [content : BlogTexts]

\* DATE_REGEX = /^\d{4}-\d{2}-\d{2}$/
DATE_REGEX(text) ==
    /\ Len(text) = 10
    /\ \A i \in {1, 2, 3, 4, 6, 7, 9, 10} : IsDigit(text[i])
    /\ text[5] = "-"
    /\ text[8] = "-"

\* dateSchema = z.string().regex(DATE_REGEX, ...)
dateSchema(text) == DATE_REGEX(text)

\* noteSchema with no upper bound on content.
noteSchemaNoMax(body) ==
    /\ Len(body.timestamp) >= 1
    /\ body.content.kind = "string"
    /\ body.content.length >= 1
    /\ DATE_REGEX(body.logical_date)

\* noteSchema: timestamp min(1), content min(1).max(10_000), logical_date regex
noteSchema(body) ==
    /\ Len(body.timestamp) >= 1
    /\ body.content.kind = "string"
    /\ body.content.length >= 1
    /\ body.content.length <= NoteContentMax
    /\ DATE_REGEX(body.logical_date)

\* blogSchema: content z.string().max(100_000)
blogSchema(body) ==
    /\ body.content.kind = "string"
    /\ body.content.length <= BlogContentMax

Rejected(route, date, body) ==
    [route |-> route, date |-> date, body |-> body, status |-> 400, called |-> "none"]

Answered(route, date, body, fn) ==
    [route |-> route, date |-> date, body |-> body, status |-> 200, called |-> fn]

\* GET /api/tracker/day/:logicalDate.  The body of the 200 response is what
\* getDayData returns.
HandleGetDay(logicalDate) ==
    /\ api.route = "none"
    /\ api' = IF ~dateSchema(logicalDate)
              THEN Rejected("GET day", logicalDate, NoBody)
              ELSE Answered("GET day", logicalDate, NoBody, "getDayData")
    /\ UNCHANGED <<tableVars, overviewVars, heatVars, dayVars, page, withDB, view,
                   aggVars, catVars, settingsVars>>

\* GET /api/tracker/day/:logicalDate/apps.  The body of the 200 response is
\* what getAppUsageForDate returns.
HandleGetDayApps(logicalDate) ==
    /\ api.route = "none"
    /\ api' = IF ~dateSchema(logicalDate)
              THEN Rejected("GET day apps", logicalDate, NoBody)
              ELSE Answered("GET day apps", logicalDate, NoBody, "getAppUsageForDate")
    /\ UNCHANGED <<tableVars, overviewVars, heatVars, dayVars, page, withDB, view,
                   aggVars, catVars, settingsVars>>

\* POST /api/tracker/note: addNote runs its upsert on the parsed body.
HandlePostNote(body) ==
    /\ api.route = "none"
    /\ IF ~noteSchema(body)
       THEN /\ api' = Rejected("POST note", <<>>, body)
            /\ notes' = notes
       ELSE /\ api' = Answered("POST note", <<>>, body, "addNote")
            /\ notes' = UpsertNote(notes, body.timestamp, body.content, body.logical_date)
    /\ UNCHANGED <<window_events, key_events, daily_blog, overviewVars, heatVars,
                   dayVars, page, withDB, view, aggVars, catVars, settingsVars>>

\* PUT /api/tracker/blog/:logicalDate: the date is checked first, then the body.
HandlePutBlog(logicalDate, body) ==
    /\ api.route = "none"
    /\ IF ~dateSchema(logicalDate) \/ ~blogSchema(body)
       THEN /\ api' = Rejected("PUT blog", logicalDate, body)
            /\ daily_blog' = daily_blog
       ELSE /\ api' = Answered("PUT blog", logicalDate, body, "saveBlog")
            /\ daily_blog' = UpsertBlog(daily_blog, logicalDate, body.content)
    /\ UNCHANGED <<window_events, key_events, notes, overviewVars, heatVars,
                   dayVars, page, withDB, view, aggVars, catVars, settingsVars>>

\* The response has been sent; the server takes the next request.
SendResponse ==
    /\ api.route # "none"
    /\ api' = NoApi
    /\ UNCHANGED <<tableVars, overviewVars, heatVars, dayVars, page, withDB, view,
                   aggVars, catVars, settingsVars>>

ApiInit == OverviewInit

ApiNext ==
    \/ \E d \in DateTexts : HandleGetDay(d)
    \/ \E d \in DateTexts : HandleGetDayApps(d)
    \/ \E body \in NoteBodies : HandlePostNote(body)
    \/ \E d \in DateTexts, body \in BlogBodies : HandlePutBlog(d, body)
    \/ \E from \in QueryDates, to \in QueryDates :
          HandleOverview(from, to, MissingParam)
    \/ SendResponse

SpecApi == ApiInit /\ [][ApiNext]_vars

(* Properties of request validation *)

\* The text is not of the form YYYY-MM-DD.
NotADate(text) ==
    ~(/\ Len(text) = 10
      /\ \A i \in 1..Len(text) : IF i \in {5, 8} THEN text[i] = "-" ELSE IsDigit(text[i]))

\* The request held in `a` carries an input the endpoint must reject.
FailsValidation(a) ==
    \/ a.route \in {"GET day", "GET day apps", "PUT blog"} /\ NotADate(a.date)
    \/ /\ a.route = "POST note"
       /\ \/ a.body.content.kind # "string"
          \/ a.body.content.length = 0
          \/ a.body.content.length > 10000
          \/ NotADate(a.body.logical_date)
    \/ /\ a.route = "PUT blog"
       /\ \/ a.body.content.kind # "string"
          \/ a.body.content.length > 100000

RejectedWithoutCall ==
    (api.route # "none" /\ FailsValidation(api)) =>
        (api.status = 400 /\ api.called = "none")

RejectedLeavesStore ==
    (api.route = "none" /\ api'.route # "none" /\ FailsValidation(api')) =>
        UNCHANGED tableVars

\* from or to was given and is not of the form YYYY-MM-DD.
RangeGivenNotADate(q) ==
    q.called /\ (q.from.kind \in {"empty", "malformed"} \/ q.to.kind \in {"empty", "malformed"})

\* from or to was given, is not empty and is not of the form YYYY-MM-DD.
RangeMalformed(q) ==
    q.called /\ (q.from.kind = "malformed" \/ q.to.kind = "malformed")

OverviewRejectedAll ==
    RangeGivenNotADate(ovQuery) => (ovResponse.status = 400 /\ ovArgs = NotCalled)

OverviewRejectedMalformed ==
    RangeMalformed(ovQuery) => (ovResponse.status = 400 /\ ovArgs = NotCalled)

\* C24 as stated: a tracker request whose input fails validation (logicalDate
\* or from/to not of the form YYYY-MM-DD, note content empty or over 10000
\* characters, blog over 100000 characters) is answered 400 with no
\* tracker-db function called and the store unchanged.
C24_Original ==
    /\ []RejectedWithoutCall
    /\ []OverviewRejectedAll
    /\ [][RejectedLeavesStore]_vars

\* C24 as amended: the same, where a from/to of the overview request counts
\* as failing validation only when it is not empty; an empty from or to is
\* treated as omitted and the request is answered by getOverview.
C24_RejectedWithoutCall ==
    /\ []RejectedWithoutCall
    /\ []OverviewRejectedMalformed
    /\ [][RejectedLeavesStore]_vars

C24_Witness ==
    /\ api.route = "POST note"
    /\ api.body.content = Text(NoteContentMax + 1)
    /\ api.status = 400
    /\ notes # {}

C24_OverviewWitness ==
    /\ ovQuery.called
    /\ ovQuery.from.kind = "malformed"
    /\ ovResponse.status = 400
    /\ notes # {}


----------------------------------------------------------------------------
(* withDB (tracker-db.ts): one database instance and connection per call *)

\* finally { conn.closeSync(); instance.closeSync(); } run only after a
\* callback that returned.
CloseOnReturnOnly(c) ==
    IF c.callback = "returned"
    THEN [c EXCEPT !.connClosed = @ + 1, !.instClosed = @ + 1]
    ELSE c

\* finally { conn.closeSync(); instance.closeSync(); }
Finally(c) == [c EXCEPT !.connClosed = @ + 1, !.instClosed = @ + 1]

\* withDB(fn, options) is called: existsSync(DB_PATH) is evaluated at once,
\* and the call throws when the file is missing.
CallWithDB(i, readOnly, exists) ==
    /\ withDB[i].pc \in {"idle", "done"}
    /\ withDB' = [withDB EXCEPT ![i] =
          IF exists
          THEN [NoWithDB EXCEPT !.pc = "create", !.readOnly = readOnly]
          ELSE [NoWithDB EXCEPT !.pc = "done", !.readOnly = readOnly,
                                !.outcome = "no database"]]
    /\ UNCHANGED <<aggVars, catVars, settingsVars, trackerVars, page, api, view>>

\* await DuckDBInstance.create(DB_PATH, instanceOptions) resolves.
CreateResolves(i) ==
    /\ withDB[i].pc = "create"
    /\ withDB' = [withDB EXCEPT ![i].pc = "connect", ![i].instOpened = @ + 1]
    /\ UNCHANGED <<aggVars, catVars, settingsVars, trackerVars, page, api, view>>

\* It rejects: the call rejects with that error, nothing was opened.
CreateRejects(i) ==
    /\ withDB[i].pc = "create"
    /\ withDB' = [withDB EXCEPT ![i].pc = "done", ![i].outcome = "create error"]
    /\ UNCHANGED <<aggVars, catVars, settingsVars, trackerVars, page, api, view>>

\* await instance.connect() resolves and fn(conn) is called.
ConnectResolves(i) ==
    /\ withDB[i].pc = "connect"
    /\ withDB' = [withDB EXCEPT ![i].pc = "callback", ![i].connOpened = @ + 1,
                                ![i].callback = "running"]
    /\ UNCHANGED <<aggVars, catVars, settingsVars, trackerVars, page, api, view>>

\* It rejects, before the try block is entered.
ConnectRejects(i) ==
    /\ withDB[i].pc = "connect"
    /\ withDB' = [withDB EXCEPT ![i].pc = "done", ![i].outcome = "connect error"]
    /\ UNCHANGED <<aggVars, catVars, settingsVars, trackerVars, page, api, view>>

\* await fn(conn) settles; the finally block runs and the call settles the
\* same way.
CallbackSettles(i, how) ==
    /\ withDB[i].pc = "callback"
    /\ withDB' = [withDB EXCEPT ![i] =
          Finally([@ EXCEPT !.pc = "done", !.callback = how,
                            !.outcome = IF how = "returned" THEN "value"
                                        ELSE "callback error"])]
    /\ UNCHANGED <<aggVars, catVars, settingsVars, trackerVars, page, api, view>>

WithDBInit ==
    /\ UiIdle
    /\ AggIdle
    /\ CatIdle
    /\ SettingsIdle
    /\ TrackerIdle

WithDBNext ==
    \/ \E i \in CallIds, readOnly \in BOOLEAN, exists \in BOOLEAN :
          CallWithDB(i, readOnly, exists)
    \/ \E i \in CallIds : CreateResolves(i)
    \/ \E i \in CallIds : CreateRejects(i)
    \/ \E i \in CallIds : ConnectResolves(i)
    \/ \E i \in CallIds : ConnectRejects(i)
    \/ \E i \in CallIds, how \in {"returned", "threw"} : CallbackSettles(i, how)

SpecWithDB == WithDBInit /\ [][WithDBNext]_vars

(* Properties of withDB *)

\* C25: once the callback has finished, by returning or by throwing, the
\* connection and the instance the call opened have each been closed exactly
\* once and the call settles as the callback did; nothing is closed before
\* the callback finishes or more often than it was opened; a call that finds
\* no database file throws without opening an instance or running the
\* callback.
C25_ClosedOnceAfterCallback ==
    \A i \in CallIds :
        LET c == withDB[i]
        IN  /\ c.callback \in {"returned", "threw"} =>
                /\ c.connOpened = 1 /\ c.connClosed = 1
                /\ c.instOpened = 1 /\ c.instClosed = 1
                /\ c.outcome = (IF c.callback = "returned" THEN "value"
                                ELSE "callback error")
            /\ c.callback \in {"none", "running"} =>
                (c.connClosed = 0 /\ c.instClosed = 0)
            /\ c.outcome = "no database" =>
                (c.instOpened = 0 /\ c.connOpened = 0 /\ c.callback = "none")

C25_Witness ==
    /\ withDB[1].callback = "threw"
    /\ withDB[1].connClosed = 1
    /\ withDB[1].instClosed = 1
    /\ withDB[2].outcome = "no database"

C25_ReturnWitness ==
    /\ withDB[1].callback = "returned"
    /\ withDB[1].instClosed = 1
    /\ withDB[2].callback = "running"

----------------------------------------------------------------------------
(* PUT /api/tracker/settings and updateSetting: what a save writes *)

\* getSettings: every row's key with JSON.parse of its value.
getSettings(table) ==
    [key \in {k \in SettingKeys : table[k] # Absent} |->
        IF key = "title_mappings" THEN <<"rules", JSONParseRules(table[key])>>
        ELSE <<"list", JSONParseList(table[key])>>]

\* The value the request body carries for its j-th key, as c.req.json() parses it.
BodyValue(body, j) ==
    IF body[j][1] = "title_mappings" THEN <<"rules", JSONParseRules(body[j][2])>>
    ELSE <<"list", JSONParseList(body[j][2])>>

\* The positions of the body's entries for key.
EntriesFor(body, key) == {j \in 1..Len(body) : body[j][1] = key}

\* The handler answers a pending request in this step.
Answers(status) ==
    put.kind = "pending" /\ put'.kind = "response" /\ put'.status = status

\* C26: the handler writes the body's keys one at a time in order with no
\* rollback: when writing the k-th key fails, the response is 500, every key
\* before the k-th holds its new value and every other key holds the value
\* it had when the request arrived; a request answered 200 has written all
\* of its keys.
C26_PartialWriteKept ==
    [][/\ Answers(500) =>
            \A key \in SettingKeys :
                LET written == {j \in EntriesFor(put.body, key) : j < put.next}
                IN  IF written # {}
                    THEN /\ key \in DOMAIN getSettings(db')
                         /\ getSettings(db')[key] = BodyValue(put.body, SetMax(written))
                    ELSE db'[key] = put.before[key]
       /\ Answers(200) =>
            \A j \in 1..Len(put.body) :
                /\ put.body[j][1] \in DOMAIN getSettings(db')
                /\ getSettings(db')[put.body[j][1]] = BodyValue(put.body, j)
       /\ (put.kind = "pending" /\ put'.kind = "pending" /\ put' # put) =>
            (put'.next = put.next + 1 /\ put'.body = put.body)]_vars

C26_Witness ==
    /\ put = [kind |-> "response", status |-> 500]
    /\ db["title_mappings"] # Absent
    /\ getSettings(db)["title_mappings"][2] # <<>>
    /\ db["hacking_categories"] = Absent

\* A step in which updateSetting(key, value) of the request being handled ran.
UpdatesSetting ==
    /\ put.kind = "pending"
    /\ \/ put'.kind = "pending" /\ put'.next = put.next + 1
       \/ Answers(200)

OnlyKeyChanges ==
    UpdatesSetting =>
        LET key == put.body[put.next][1]
        IN  /\ \A other \in SettingKeys \ {key} : db'[other] = db[other]
            /\ key \in DOMAIN getSettings(db')
            /\ getSettings(db')[key] = BodyValue(put.body, put.next)

DayBoundaryKept == db["day_boundary_hour"] = <<"7">>

\* C27: updateSetting(key, value) changes only the value stored under key,
\* so a save of the Settings page, which sends title_mappings and
\* hacking_categories, leaves day_boundary_hour as it was; getSettings
\* afterwards returns for key the value that was written; nothing else
\* changes the table.
C27_OnlyKeyChanges ==
    /\ [][OnlyKeyChanges]_vars
    /\ [][db' # db => UpdatesSetting]_vars
    /\ []DayBoundaryKept

C27_Witness ==
    /\ put.kind = "pending"
    /\ put.next = 2
    /\ db["title_mappings"] # put.before["title_mappings"]
    /\ getSettings(db)["title_mappings"][2] # <<>>
    /\ db["hacking_categories"] # Absent
    /\ db["hacking_categories"] = put.before["hacking_categories"]
    /\ db["day_boundary_hour"] = <<"7">>

----------------------------------------------------------------------------
(* What the Settings page reports after a save *)

\* C28: the page shows "Settings saved successfully!" only when the server
\* accepted and stored the settings (the PUT was answered 200); when the PUT
\* is answered with an error status or fails, it shows
\* "Failed to save settings".
C28_Original ==
    [][/\ (message' = "Settings saved successfully!" /\ message' # message) =>
            (put.kind = "response" /\ put.status = 200)
       /\ (put.kind = "response" /\ put.status # 200 /\ put' = NoRequest) =>
            message' = "Failed to save settings"]_vars

----------------------------------------------------------------------------
(* DayView: the effect that fetches the day data of the route date *)

MaxFetches == 2

\* What GET /api/tracker/day/:date answers for date d: the date's DayData;
\* the first date has no blog entry.
DayResponse(d) ==
    [logical_date |-> d, blog |-> IF d = 1 THEN NullBlog ELSE "entry"]

Outstanding(v) == SumFn(v.outstanding, ViewDates)

\* .then((data) => { setDayData(data); setBlogContent(data.blog || "");
\*                   setLoading(false); })
ApplyResponse(v, d) ==
    [v EXCEPT !.dayData = [logical_date |-> d],
              !.blogContent = IF DayResponse(d).blog = NullBlog THEN ""
                              ELSE DayResponse(d).blog,
              !.loading = FALSE]

\* The route date changes to d: the effect runs, sets loading and issues
\* the fetch.  The effect returns no cleanup and earlier fetches stay
\* outstanding.
NavigateTo(d) ==
    /\ d # view.date
    /\ Outstanding(view) < MaxFetches
    /\ view' = [view EXCEPT !.date = d, !.loading = TRUE,
                            !.outstanding[d] = @ + 1]
    /\ UNCHANGED <<aggVars, catVars, settingsVars, trackerVars, page, api, withDB>>

\* The fetch of date d resolves with a 200 response holding window_events.
FetchResolves(d) ==
    /\ view.outstanding[d] > 0
    /\ view' = [ApplyResponse(view, d) EXCEPT !.outstanding[d] = @ - 1]
    /\ UNCHANGED <<aggVars, catVars, settingsVars, trackerVars, page, api, withDB>>

\* The fetch of date d rejects, or its response is not ok: the catch.
FetchRejects(d) ==
    /\ view.outstanding[d] > 0
    /\ view' = [view EXCEPT !.loading = FALSE, !.outstanding[d] = @ - 1,
                            !.rejected = TRUE]
    /\ UNCHANGED <<aggVars, catVars, settingsVars, trackerVars, page, api, withDB>>

ViewInit ==
    /\ UiIdle
    /\ AggIdle
    /\ CatIdle
    /\ SettingsIdle
    /\ TrackerIdle

ViewNext ==
    \/ \E d \in ViewDates : NavigateTo(d)
    \/ \E d \in ViewDates : FetchResolves(d)
    \/ \E d \in ViewDates : FetchRejects(d)

SpecView == ViewInit /\ [][ViewNext]_vars

(* Properties of DayView *)

\* C29: once every outstanding day-data fetch has settled (none of them
\* having failed), the displayed dayData and blog text belong to the current
\* route date and loading is false.
C29_Original ==
    (view.date # 0 /\ Outstanding(view) = 0 /\ ~view.rejected) =>
        /\ view.dayData.logical_date = view.date
        /\ view.blogContent = (IF DayResponse(view.date).blog = NullBlog THEN ""
                               ELSE DayResponse(view.date).blog)
        /\ ~view.loading

----------------------------------------------------------------------------
(* The saving flag of the Settings page *)

SavingWhileInFlight == saving <=> (put # NoRequest)

\* A step in which handleSave sends a request.
StartsSave == put'.kind = "pending" /\ put'.next = 1 /\ (put' # put \/ saving' # saving)

\* A step in which the request of a save settles, resolved or rejected.
SaveSettles == put # NoRequest /\ put' = NoRequest

\* C30: saving is true from the start of a save until its request settles
\* and is false again once it has settled, whether it resolved or rejected;
\* a save starts only while saving is false (the Save button is disabled
\* otherwise), so at most one save of the page is in flight.
C30_SavingGuardsSave ==
    /\ []SavingWhileInFlight
    /\ [][StartsSave => (~saving /\ put = NoRequest /\ saving')]_vars
    /\ [][SaveSettles => (saving /\ ~saving')]_vars

C30_Witness ==
    /\ saving
    /\ put.kind = "pending"
    /\ put.next = 2
    /\ message = NoMessage

C30_RejectedWitness ==
    /\ ~saving
    /\ put = NoRequest
    /\ message = "Failed to save settings"

====
